---- MODULE Spec2Model ----
(***************************************************************************)
(* Med_talks: the triage decision engine (elaazaouzi_fadwa) and the        *)
(* end-to-end flow that connects it to retrieval and generation            *)
(* (orchestractor.py).                                                     *)
(*                                                                         *)
(* A text is a sequence of one-character strings, so that strip(),         *)
(* lower() and the substring test `kw in text` are computed, not assumed.  *)
(* A classifier score is an integer number of millionths (0.75 = 750000).  *)
(***************************************************************************)
EXTENDS Integers, Sequences, FiniteSets, TLC

VARIABLES
    entry,           \* which triage entry point the caller used
    variant,         \* which of the two PersonBOrchestrator files runs
    question,        \* the text given to classify_question
    pc,              \* position inside the triage call
    validation,      \* the dict validate_input returned
    classification,  \* the dict ZeroShotClassifier.classify returned
    confidence,      \* the level compute_confidence returned
    plan,            \* the ActionPlan returned to the caller
    steps,           \* the steps of classify_question executed so far, in order
    classifierCalls, \* number of ZeroShotClassifier.classify calls made
    confCalls,       \* the last two direct compute_confidence calls (score, level)
    bound,           \* orchestractor.py: names bound at module level after the imports
    ppc,             \* position inside Orchestrateur.process_question
    user_question,   \* the text given to Orchestrateur.process_question
    oracle,          \* what the triage classifier answers for user_question
    question_type,   \* local of process_question
    dataset_info,    \* local of process_question
    api_info,        \* local of process_question
    generateCalls,   \* number of LLMClient.generate calls made
    result,          \* what process_question returned (or raised)
    rentry,          \* which operation of the retrieval layer the caller used
    rpc,             \* position inside search_apis / search_specific
    rquestion,       \* the question given to the retrieval call
    rsource,         \* the source argument of search_specific
    max_results,     \* the max_results argument of the retrieval call
    response,        \* the APIResponse being filled, then returned
    wiki_results,    \* local of search_apis / search_specific
    drug_results,    \* local of search_apis / search_specific
    adverse_results, \* local of search_apis / search_specific
    fetched,         \* the adapter calls of this retrieval, what each got and gave
    calling,         \* the adapter call in progress: its operation and max_results
    \* format_for_llm
    fpc,             \* where the format_for_llm call is
    max_results_per_source,
    formatted,       \* the text format_for_llm returned
    \* DataCleaner.clean_html
    cpc,             \* where the clean_html call is
    raw_html,
    max_length,
    soup_raises,     \* whether BeautifulSoup(decoded, 'lxml') raises
    clean_text,      \* the text clean_html returned
    installed,       \* requests_cache.install_cache has patched requests.Session
    session,         \* the kind of self.session of the HTTPClient in use
    hpc,             \* position inside HTTPClient.get
    url,             \* the (url, params) of the current get call
    attempts,        \* what each attempt of the current get call met, in order
    cache,           \* the entries of the 'api_cache' backend, by (url, params)
    now,             \* the clock, in seconds
    returned,        \* what the current get call returned or raised
    prev,            \* the get call that ended before the current one
    clearedSince,    \* clear_cache was called since the current get call began
    calledAt,        \* the time the current get call was made
    gets,            \* number of get calls made
    served,          \* the response body the current get call was answered with
    max_retries,     \* self.max_retries of the client
    \* WikipediaClient.get_page_content
    wpc,             \* where the get_page_content call is
    page_id,
    page_got,        \* what http_client.get gave the call
    page_result,     \* what get_page_content returned
    \* LLMClient
    mode,            \* self.mode: mock or production
    cache_enabled,
    cache_files,     \* the files of cache_dir, by cache key
    clock,           \* datetime.now(), in hours
    lpc,             \* where the generate call is
    prompt,
    retries,         \* the max_retries argument of generate
    tried,           \* how each generation of the call ended
    llm_response,    \* what generate returned
    hit,             \* the call was answered from the cache
    before,          \* the response generated for this prompt before the call
    failed_before,   \* the call before with this prompt returned a failure text
    cache_at_call,   \* the cache files when the call began
    produced,        \* by prompt, the last response generated and its hour
    failed,          \* prompts whose last call returned a failure text
    \* LLMHandler
    has_model,       \* the client has the attribute model
    stats,           \* self.stats: total_questions and by_type
    qpc,             \* where the handler call is
    queue,           \* the questions the call has yet to process
    handled,         \* what process_question returned, call by call
    executions       \* process_question bodies run so far

triageVars == <<entry, variant, question, pc, validation, classification,
                confidence, plan, steps, classifierCalls, confCalls>>
pipelineVars == <<bound, ppc, user_question, oracle, question_type,
                  dataset_info, api_info, generateCalls, result>>
retrievalVars == <<rentry, rpc, rquestion, rsource, max_results, response,
                   wiki_results, drug_results, adverse_results, fetched, calling>>
httpVars == <<installed, session, hpc, url, attempts, cache, now, returned,
              prev, clearedSince, calledAt, gets, served, max_retries>>
formatVars == <<fpc, max_results_per_source, formatted>>
cleanerVars == <<cpc, raw_html, max_length, soup_raises, clean_text>>
pageVars == <<wpc, page_id, page_got, page_result>>
llmVars == <<mode, cache_enabled, cache_files, clock, lpc, prompt, retries, tried, llm_response,
             hit, before, failed_before, cache_at_call, produced, failed>>
\* the variables the LLM client leaves alone
otherVars == <<triageVars, pipelineVars, retrievalVars, httpVars, formatVars, cleanerVars,
               pageVars>>
handlerVars == <<has_model, stats, qpc, queue, handled, executions>>
vars == <<triageVars, pipelineVars, retrievalVars, httpVars, formatVars, cleanerVars,
          pageVars, llmVars, handlerVars>>

(***************************************************************************)
(* Bounds of the model.                                                    *)
(***************************************************************************)
\* longest run of padding characters put before and after a core text
MaxPad == 1

(***************************************************************************)
(* Text helpers: str.strip, str.lower, `needle in hay`.                    *)
(***************************************************************************)
Whitespace == {" ", "\t", "\n"}

UpperCase == <<"A","B","C","D","E","F","G","H","I","J","K","L","M",
               "N","O","P","Q","R","S","T","U","V","W","X","Y","Z">>
LowerCase == <<"a","b","c","d","e","f","g","h","i","j","k","l","m",
               "n","o","p","q","r","s","t","u","v","w","x","y","z">>

\* the letter pairs as a lookup table
LowerMap ==
    LET Pair(i) == UpperCase[i] :> LowerCase[i]
        Table[i \in 1..Len(UpperCase)] ==
            IF i = 1 THEN Pair(1) ELSE Table[i - 1] @@ Pair(i)
    IN  Table[Len(UpperCase)]

LowerChar(c) == IF c \in DOMAIN LowerMap THEN LowerMap[c] ELSE c

\* the text with each character lowered (SubSeq yields the plain sequence)
Lower(text) == SubSeq([i \in 1..Len(text) |-> LowerChar(text[i])], 1, Len(text))

\* the place of the first character from i on that is no white space
RECURSIVE FirstInk(_, _)
FirstInk(text, i) ==
    IF i > Len(text) \/ text[i] \notin Whitespace THEN i ELSE FirstInk(text, i + 1)

\* the place of the last character up to i that is no white space
RECURSIVE LastInk(_, _)
LastInk(text, i) ==
    IF i < 1 \/ text[i] \notin Whitespace THEN i ELSE LastInk(text, i - 1)

Strip(text) == SubSeq(text, FirstInk(text, 1), LastInk(text, Len(text)))

\* `needle in hay`: needle occurs in hay at some position
Contains(hay, needle) ==
    \E h \in {hay} :
        \E i \in 1..(Len(h) - Len(needle) + 1) :
            \A k \in 1..Len(needle) : h[i + k - 1] = needle[k]

(***************************************************************************)
(* validators.py                                                           *)
(***************************************************************************)
dangerous_keywords == <<
    <<"k","i","l","l"," ","m","y","s","e","l","f">>,
    <<"s","u","i","c","i","d","e">>,
    <<"s","e","l","f","-","h","a","r","m">>,
    <<"e","n","d"," ","m","y"," ","l","i","f","e">>,
    <<"h","u","r","t"," ","m","y","s","e","l","f">>,
    <<"p","o","i","s","o","n">>,
    <<"o","v","e","r","d","o","s","e">>,
    <<"h","a","r","m"," ","m","y","s","e","l","f">> >>

\* the keyword the for loop of validate_input stops at: the first, in list
\* order, that occurs in the scanned text
FirstKeyword(scanned) ==
    dangerous_keywords[
        CHOOSE i \in DOMAIN dangerous_keywords :
            /\ Contains(scanned, dangerous_keywords[i])
            /\ \A j \in 1..(i - 1) : ~Contains(scanned, dangerous_keywords[j])]

\* mutant: the keyword scan runs on the raw text, not on text.lower()
validate_input_case_sensitive(text) ==
    IF text = <<>> \/ Len(Strip(text)) = 0
    THEN [valid |-> FALSE, reason |-> <<"Input is empty">>]
    ELSE IF Len(Strip(text)) < 3
    THEN [valid |-> FALSE, reason |-> <<"Input is too short to analyze">>]
    ELSE IF \E i \in DOMAIN dangerous_keywords : Contains(text, dangerous_keywords[i])
    THEN [valid |-> TRUE, risk_level |-> "high",
          reason |-> <<"Contains dangerous keyword: ", FirstKeyword(text)>>]
    ELSE [valid |-> TRUE, risk_level |-> "low",
          reason |-> <<"Input is valid and safe">>]

\* mutant: the length test of validate_input accepts two characters
validate_input_short(text) ==
    IF text = <<>> \/ Len(Strip(text)) = 0
    THEN [valid |-> FALSE, reason |-> <<"Input is empty">>]
    ELSE IF Len(Strip(text)) < 2
    THEN [valid |-> FALSE, reason |-> <<"Input is too short to analyze">>]
    ELSE IF \E text_lower \in {Lower(text)} :
               \E i \in DOMAIN dangerous_keywords :
                   Contains(text_lower, dangerous_keywords[i])
    THEN [valid |-> TRUE, risk_level |-> "high",
          reason |-> <<"Contains dangerous keyword: ", FirstKeyword(Lower(text))>>]
    ELSE [valid |-> TRUE, risk_level |-> "low",
          reason |-> <<"Input is valid and safe">>]

\* The returned dict: the two early returns carry no "risk_level" key.
validate_input(text) ==
    IF text = <<>> \/ Len(Strip(text)) = 0
    THEN [valid |-> FALSE, reason |-> <<"Input is empty">>]
    ELSE IF Len(Strip(text)) < 3
    THEN [valid |-> FALSE, reason |-> <<"Input is too short to analyze">>]
    ELSE IF \E text_lower \in {Lower(text)} :
               \E i \in DOMAIN dangerous_keywords :
                   Contains(text_lower, dangerous_keywords[i])
    THEN [valid |-> TRUE, risk_level |-> "high",
          reason |-> <<"Contains dangerous keyword: ", FirstKeyword(Lower(text))>>]
    ELSE [valid |-> TRUE, risk_level |-> "low",
          reason |-> <<"Input is valid and safe">>]

\* dict.get(key): the value, or None for a missing key
DictGet(d, key) == IF key \in DOMAIN d THEN d[key] ELSE "None"

(***************************************************************************)
(* confidence.py                                                           *)
(***************************************************************************)
HighThreshold == 750000
MediumThreshold == 400000

\* mutant: the high threshold is exclusive
compute_confidence_exclusive_high(score) ==
    IF score > HighThreshold THEN "high"
    ELSE IF score >= MediumThreshold THEN "medium"
    ELSE "low"

\* mutant: the medium threshold is exclusive
compute_confidence_exclusive_medium(score) ==
    IF score >= HighThreshold THEN "high"
    ELSE IF score > MediumThreshold THEN "medium"
    ELSE "low"

compute_confidence(score) ==
    IF score >= HighThreshold THEN "high"
    ELSE IF score >= MediumThreshold THEN "medium"
    ELSE "low"

(***************************************************************************)
(* plans.py                                                                *)
(***************************************************************************)
Domains == {"medical", "non-medical", "invalid", "unknown"}
RiskLevels == {"low", "medium", "high"}
LlmModes == {"direct", "refusal"}

\* The pydantic constructor: a value outside a Literal raises ValidationError.
ActionPlan(domain, intent, conf, risk_level, needs_external_data, llm_mode) ==
    IF domain \in Domains /\ risk_level \in RiskLevels /\ llm_mode \in LlmModes
    THEN [domain |-> domain, intent |-> intent, confidence |-> conf,
          risk_level |-> risk_level,
          needs_external_data |-> needs_external_data, llm_mode |-> llm_mode]
    ELSE [raised |-> "ValidationError"]

(***************************************************************************)
(* classifier.py: the fixed label set of ZeroShotClassifier.classify       *)
(***************************************************************************)
labels == {"medical definition question",
           "medical reasoning question",
           "medical stepwise procedure question",
           "medical multiple choice question",
           "non-medical question"}

(***************************************************************************)
(* planner.py                                                              *)
(***************************************************************************)
\* mutant: the low-confidence rule is tested before the non-medical rule
create_plan_low_first(cls, conf) ==
    LET label == cls.label
        score == cls.score
    IN  IF conf = "low"
        THEN ActionPlan("medical", "uncertain_medical_question", score,
                        "medium", TRUE, "refusal")
        ELSE IF label = "non-medical question"
        THEN ActionPlan("non-medical", "general_question", score,
                        "low", FALSE, "direct")
        ELSE IF label = "medical definition question" /\ conf \in {"medium", "high"}
        THEN ActionPlan("medical", "medical_definition", score,
                        "low", TRUE, "direct")
        ELSE IF label \in {"medical reasoning question",
                           "medical stepwise procedure question",
                           "medical multiple choice question"}
        THEN ActionPlan("medical", "medical_reasoning", score,
                        "medium", TRUE, "refusal")
        ELSE ActionPlan("unknown", "unclassified", score,
                        "medium", TRUE, "refusal")

\* mutant: the low-confidence rule is missing
create_plan_no_low_rule(cls, conf) ==
    LET label == cls.label
        score == cls.score
    IN  IF label = "non-medical question"
        THEN ActionPlan("non-medical", "general_question", score,
                        "low", FALSE, "direct")
        ELSE IF label = "medical definition question"
        THEN ActionPlan("medical", "medical_definition", score,
                        "low", TRUE, "direct")
        ELSE IF label \in {"medical reasoning question",
                           "medical stepwise procedure question",
                           "medical multiple choice question"}
        THEN ActionPlan("medical", "medical_reasoning", score,
                        "medium", TRUE, "refusal")
        ELSE ActionPlan("unknown", "unclassified", score,
                        "medium", TRUE, "refusal")

\* mutant: the cautious rule forgets the multiple choice label
create_plan_mcq_forgotten(cls, conf) ==
    LET label == cls.label
        score == cls.score
    IN  IF label = "non-medical question"
        THEN ActionPlan("non-medical", "general_question", score,
                        "low", FALSE, "direct")
        ELSE IF conf = "low"
        THEN ActionPlan("medical", "uncertain_medical_question", score,
                        "medium", TRUE, "refusal")
        ELSE IF label = "medical definition question" /\ conf \in {"medium", "high"}
        THEN ActionPlan("medical", "medical_definition", score,
                        "low", TRUE, "direct")
        ELSE IF label \in {"medical reasoning question",
                           "medical stepwise procedure question"}
        THEN ActionPlan("medical", "medical_reasoning", score,
                        "medium", TRUE, "refusal")
        ELSE ActionPlan("unknown", "unclassified", score,
                        "medium", TRUE, "refusal")

\* mutant: a confident reasoning question is answered directly
create_plan_reasoning_direct(cls, conf) ==
    LET label == cls.label
        score == cls.score
    IN  IF label = "non-medical question"
        THEN ActionPlan("non-medical", "general_question", score,
                        "low", FALSE, "direct")
        ELSE IF conf = "low"
        THEN ActionPlan("medical", "uncertain_medical_question", score,
                        "medium", TRUE, "refusal")
        ELSE IF label = "medical definition question" /\ conf \in {"medium", "high"}
        THEN ActionPlan("medical", "medical_definition", score,
                        "low", TRUE, "direct")
        ELSE IF label \in {"medical reasoning question",
                           "medical stepwise procedure question",
                           "medical multiple choice question"}
        THEN ActionPlan("medical", "medical_reasoning", score,
                        "medium", TRUE, IF conf = "high" THEN "direct" ELSE "refusal")
        ELSE ActionPlan("unknown", "unclassified", score,
                        "medium", TRUE, "refusal")

\* mutant: an uncertain medical question is answered directly
create_plan_uncertain_direct(cls, conf) ==
    LET label == cls.label
        score == cls.score
    IN  IF label = "non-medical question"
        THEN ActionPlan("non-medical", "general_question", score,
                        "low", FALSE, "direct")
        ELSE IF conf = "low"
        THEN ActionPlan("medical", "uncertain_medical_question", score,
                        "medium", TRUE, "direct")
        ELSE IF label = "medical definition question" /\ conf \in {"medium", "high"}
        THEN ActionPlan("medical", "medical_definition", score,
                        "low", TRUE, "direct")
        ELSE IF label \in {"medical reasoning question",
                           "medical stepwise procedure question",
                           "medical multiple choice question"}
        THEN ActionPlan("medical", "medical_reasoning", score,
                        "medium", TRUE, "refusal")
        ELSE ActionPlan("unknown", "unclassified", score,
                        "medium", TRUE, "refusal")

create_plan(cls, conf) ==
    LET label == cls.label
        score == cls.score
    IN  IF label = "non-medical question"
        THEN ActionPlan("non-medical", "general_question", score,
                        "low", FALSE, "direct")
        ELSE IF conf = "low"
        THEN ActionPlan("medical", "uncertain_medical_question", score,
                        "medium", TRUE, "refusal")
        ELSE IF label = "medical definition question" /\ conf \in {"medium", "high"}
        THEN ActionPlan("medical", "medical_definition", score,
                        "low", TRUE, "direct")
        ELSE IF label \in {"medical reasoning question",
                           "medical stepwise procedure question",
                           "medical multiple choice question"}
        THEN ActionPlan("medical", "medical_reasoning", score,
                        "medium", TRUE, "refusal")
        ELSE ActionPlan("unknown", "unclassified", score,
                        "medium", TRUE, "refusal")

(***************************************************************************)
(* Inputs.                                                                 *)
(***************************************************************************)
\* core texts: the denylist phrases in several cases, near misses, short and
\* blank texts, and an ordinary question
Cores == {
    <<>>, <<"a">>, <<"a","b">>, <<"a","b","c">>, <<"\t">>,
    <<"k","i","l","l"," ","m","y","s","e","l","f">>,
    <<"K","i","l","l"," ","M","y","s","e","l","f">>,
    <<"s","u","i","c","i","d","e">>,
    <<"S","U","I","C","I","D","E">>,
    <<"s","u","i","c","i","d">>,
    <<"s","e","l","f","-","h","a","r","m">>,
    <<"s","e","l","f"," ","h","a","r","m">>,
    <<"e","n","d"," ","m","y"," ","l","i","f","e">>,
    <<"h","u","r","t"," ","m","y","s","e","l","f">>,
    <<"p","o","i","s","o","n">>,
    <<"P","o","i","s","o","n">>,
    <<"o","v","e","r","d","o","s","e">>,
    <<"O","v","e","r","D","o","s","e">>,
    <<"o","v","e","r"," ","d","o","s","e">>,
    <<"h","a","r","m"," ","m","y","s","e","l","f">>,
    <<"w","h","a","t"," ","i","s"," ","f","l","u","?">> }

PadChars == {" ", "x"}
Pads == UNION {[1..n -> PadChars] : n \in 0..MaxPad}

Questions == {pre \o core \o post : pre \in Pads, core \in Cores, post \in Pads}

\* classifier scores, in millionths
Scores == {0, 350000, 399999, 400000, 650000, 749999, 750000,
           800000, 850000, 1000000}

Levels == {"low", "medium", "high"}

\* what a direct caller may hand to create_plan: the classifier's labels and
\* a label outside the fixed set
PlannerLabels == labels \cup {"unrecognised question"}

Variants == {"orchestrateur.py", "Orchestrateur.py"}

NoValidation == [pending |-> TRUE]
NoClassification == [label |-> "none", score |-> 0]
NoPlan == [pending |-> TRUE]
NoResult == [pending |-> TRUE]

(***************************************************************************)
(* PersonBOrchestrator.classify_question, step by step.                    *)
(***************************************************************************)
TriageRest ==
    /\ entry = "none"
    /\ variant = "none"
    /\ question = <<>>
    /\ pc = "idle"
    /\ validation = NoValidation
    /\ classification = NoClassification
    /\ confidence = "none"
    /\ plan = NoPlan
    /\ steps = <<>>
    /\ classifierCalls = 0
    /\ confCalls = <<>>

PipelineRest ==
    /\ bound = {}
    /\ ppc = "idle"
    /\ user_question = <<>>
    /\ oracle = NoClassification
    /\ question_type = "none"
    /\ dataset_info = [pending |-> TRUE]
    /\ api_info = [pending |-> TRUE]
    /\ generateCalls = 0
    /\ result = NoResult

\* no APIResponse built yet; a local name not yet assigned
NoResponse == [pending |-> TRUE]
Unbound == [unbound |-> TRUE]
\* no adapter call is in progress
NoCalling == [op |-> "none", n |-> 0]

RetrievalRest ==
    /\ rentry = "none"
    /\ rpc = "idle"
    /\ rquestion = <<>>
    /\ rsource = "none"
    /\ max_results = 0
    /\ response = NoResponse
    /\ wiki_results = Unbound
    /\ drug_results = Unbound
    /\ adverse_results = Unbound
    /\ fetched = <<>>
    /\ calling = NoCalling

\* no format_for_llm call was made
FormatRest ==
    /\ fpc = "idle"
    /\ max_results_per_source = 0
    /\ formatted = <<>>

\* no get_page_content call was made
NoPage == [pending |-> TRUE]
PageRest ==
    /\ wpc = "idle"
    /\ page_id = 0
    /\ page_got = NoPage
    /\ page_result = NoPage

\* no clean_html call was made
CleanerRest ==
    /\ cpc = "idle"
    /\ raw_html = <<>>
    /\ max_length = 0
    /\ soup_raises = FALSE
    /\ clean_text = <<>>

\* the (url, params) pairs the adapters request
Urls == {"fr.wikipedia.org/w/api.php", "api.fda.gov/drug/label.json"}
NoEntry == [absent |-> TRUE]
NoReturn == [pending |-> TRUE]
NoCall == [pending |-> TRUE]

\* api_client.py once imported: `http_client = HTTPClient()` has run, its
\* session was made by requests.Session() before install_cache patched
\* requests.Session, and the cache holds no entry
HttpRest ==
    /\ installed = TRUE
    /\ session = "plain"
    /\ hpc = "idle"
    /\ url = "none"
    /\ attempts = <<>>
    /\ cache = [u \in Urls |-> NoEntry]
    /\ now = 0
    /\ returned = NoReturn
    /\ prev = NoCall
    /\ clearedSince = FALSE
    /\ calledAt = 0
    /\ gets = 0
    /\ served = NoReturn
    /\ max_retries = 3

\* generate has returned nothing yet
NoAnswer == [pending |-> TRUE]
\* no LLMClient was made
LlmRest ==
    /\ mode = "mock"
    /\ cache_enabled = TRUE
    /\ cache_files = <<>>
    /\ clock = 0
    /\ lpc = "idle"
    /\ prompt = <<>>
    /\ retries = 2
    /\ tried = <<>>
    /\ llm_response = NoAnswer
    /\ hit = FALSE
    /\ before = NoEntry
    /\ failed_before = FALSE
    /\ cache_at_call = <<>>
    /\ produced = <<>>
    /\ failed = {}

\* no LLMHandler was made
HandlerRest ==
    /\ has_model = FALSE
    /\ stats = [total_questions |-> 0, by_type |-> <<>>]
    /\ qpc = "idle"
    /\ queue = <<>>
    /\ handled = <<>>
    /\ executions = 0

Init ==
    /\ TriageRest /\ PipelineRest /\ RetrievalRest /\ HttpRest /\ FormatRest
    /\ CleanerRest /\ PageRest /\ LlmRest /\ HandlerRest

\* a caller invokes classify_question(q) on one of the two orchestrator files
CallClassifyQuestion ==
    /\ pc = "idle"
    /\ entry' = "classify_question"
    /\ \E q \in Questions, v \in Variants :
          /\ variant' = v
          /\ question' = q
    /\ pc' = "validate"
    /\ UNCHANGED <<validation, classification, confidence, plan, steps,
                   classifierCalls, confCalls>>
    /\ UNCHANGED <<pipelineVars, retrievalVars, httpVars, formatVars, cleanerVars, pageVars, llmVars, handlerVars>>

InvalidPlan == ActionPlan("invalid", "invalid_input", 0, "low", FALSE, "refusal")
DangerPlan == ActionPlan("medical", "dangerous_or_sensitive", 1000000,
                         "high", FALSE, "refusal")

\* 1. Validation: validate_input, then the `not validation["valid"]` return
Validate ==
    /\ pc = "validate"
    /\ validation' = validate_input(question)
    /\ steps' = Append(steps, "validate")
    /\ IF ~validation'.valid
       THEN plan' = InvalidPlan /\ pc' = "done"
       ELSE plan' = plan /\ pc' = "safety"
    /\ UNCHANGED <<entry, variant, question, classification, confidence,
                   classifierCalls, confCalls>>
    /\ UNCHANGED <<pipelineVars, retrievalVars, httpVars, formatVars, cleanerVars, pageVars, llmVars, handlerVars>>

\* mutant: the high-risk test does not return, the question is classified
SafetyScreenNoReturn ==
    /\ pc = "safety"
    /\ steps' = Append(steps, "safety")
    /\ pc' = IF variant = "Orchestrateur.py" THEN "preprocess" ELSE "classify"
    /\ UNCHANGED <<entry, variant, question, validation, classification,
                   confidence, plan, classifierCalls, confCalls>>
    /\ UNCHANGED <<pipelineVars, retrievalVars, httpVars, formatVars, cleanerVars, pageVars, llmVars, handlerVars>>

\* the `validation.get("risk_level") == "high"` return
SafetyScreen ==
    /\ pc = "safety"
    /\ steps' = Append(steps, "safety")
    /\ IF DictGet(validation, "risk_level") = "high"
       THEN plan' = DangerPlan /\ pc' = "done"
       ELSE /\ plan' = plan
            /\ pc' = IF variant = "Orchestrateur.py" THEN "preprocess" ELSE "classify"
    /\ UNCHANGED <<entry, variant, question, validation, classification,
                   confidence, classifierCalls, confCalls>>
    /\ UNCHANGED <<pipelineVars, retrievalVars, httpVars, formatVars, cleanerVars, pageVars, llmVars, handlerVars>>

\* Orchestrateur.py only: self.preprocessor.process(question); the text it
\* yields goes to the classifier, whose answer is drawn in Classify
Preprocess ==
    /\ pc = "preprocess"
    /\ steps' = Append(steps, "preprocess")
    /\ pc' = "classify"
    /\ UNCHANGED <<entry, variant, question, validation, classification,
                   confidence, plan, classifierCalls, confCalls>>
    /\ UNCHANGED <<pipelineVars, retrievalVars, httpVars, formatVars, cleanerVars, pageVars, llmVars, handlerVars>>

\* self.classifier.classify(...) answers with the top label and its score
Classify ==
    /\ pc = "classify"
    /\ \E label \in labels, score \in Scores :
          classification' = [label |-> label, score |-> score]
    /\ classifierCalls' = classifierCalls + 1
    /\ steps' = Append(steps, "classify")
    /\ pc' = "confidence"
    /\ UNCHANGED <<entry, variant, question, validation, confidence, plan, confCalls>>
    /\ UNCHANGED <<pipelineVars, retrievalVars, httpVars, formatVars, cleanerVars, pageVars, llmVars, handlerVars>>

\* mutant: a failure of the classifier is caught and answered with a
\* fallback refusal plan
ClassifyRaisesFallbackPlan ==
    /\ pc = "classify"
    /\ classifierCalls' = classifierCalls + 1
    /\ steps' = Append(steps, "classify")
    /\ plan' = ActionPlan("unknown", "unknown", 0, "medium", FALSE, "refusal")
    /\ pc' = "done"
    /\ UNCHANGED <<entry, variant, question, validation, classification,
                   confidence, confCalls>>
    /\ UNCHANGED <<pipelineVars, retrievalVars, httpVars, formatVars, cleanerVars, pageVars, llmVars, handlerVars>>

\* self.classifier.classify(...) raises: nothing in classify_question catches it
ClassifyRaises ==
    /\ pc = "classify"
    /\ classifierCalls' = classifierCalls + 1
    /\ steps' = Append(steps, "classify")
    /\ pc' = "raised"
    /\ UNCHANGED <<entry, variant, question, validation, classification,
                   confidence, plan, confCalls>>
    /\ UNCHANGED <<pipelineVars, retrievalVars, httpVars, formatVars, cleanerVars, pageVars, llmVars, handlerVars>>

\* confidence = compute_confidence(classification["score"])
Confidence ==
    /\ pc = "confidence"
    /\ confidence' = compute_confidence(classification.score)
    /\ steps' = Append(steps, "confidence")
    /\ pc' = "plan"
    /\ UNCHANGED <<entry, variant, question, validation, classification, plan,
                   classifierCalls, confCalls>>
    /\ UNCHANGED <<pipelineVars, retrievalVars, httpVars, formatVars, cleanerVars, pageVars, llmVars, handlerVars>>

\* return self.planner.create_plan(classification, confidence)
Plan ==
    /\ pc = "plan"
    /\ plan' = create_plan(classification, confidence)
    /\ steps' = Append(steps, "plan")
    /\ pc' = "done"
    /\ UNCHANGED <<entry, variant, question, validation, classification,
                   confidence, classifierCalls, confCalls>>
    /\ UNCHANGED <<pipelineVars, retrievalVars, httpVars, formatVars, cleanerVars, pageVars, llmVars, handlerVars>>

(***************************************************************************)
(* Direct callers of the planner and of compute_confidence (tests/test.py, *)
(* debug.py): any label, score and level, several calls in a row.          *)
(***************************************************************************)
CallCreatePlan ==
    /\ \/ pc = "idle"
       \/ entry = "create_plan"
    /\ entry' = "create_plan"
    /\ \E label \in PlannerLabels, score \in Scores, conf \in Levels :
          /\ classification' = [label |-> label, score |-> score]
          /\ confidence' = conf
          /\ plan' = create_plan(classification', conf)
    /\ pc' = "done"
    /\ UNCHANGED <<variant, question, validation, steps, classifierCalls, confCalls>>
    /\ UNCHANGED <<pipelineVars, retrievalVars, httpVars, formatVars, cleanerVars, pageVars, llmVars, handlerVars>>

CallComputeConfidence ==
    /\ \/ pc = "idle"
       \/ entry = "compute_confidence"
    /\ entry' = "compute_confidence"
    /\ \E score \in Scores :
          LET call == [score |-> score, level |-> compute_confidence(score)]
          IN  confCalls' = IF confCalls = <<>> THEN <<call>>
                           ELSE <<confCalls[Len(confCalls)], call>>
    /\ pc' = "done"
    /\ UNCHANGED <<variant, question, validation, classification, confidence,
                   plan, steps, classifierCalls>>
    /\ UNCHANGED <<pipelineVars, retrievalVars, httpVars, formatVars, cleanerVars, pageVars, llmVars, handlerVars>>

(***************************************************************************)
(* elaazaouzi_fadwa/__init__.py: triage_pipeline(query), the package-level *)
(* entry point.  It returns (classification, confidence, action_plan); an  *)
(* invalid query raises ValueError, a classifier failure is not caught.    *)
(***************************************************************************)
CallTriagePipeline ==
    /\ pc = "idle"
    /\ entry' = "triage_pipeline"
    /\ \E q \in Questions :
          /\ question' = q
          /\ \E v \in {validate_input(q)} :
                /\ validation' = v
                /\ IF ~v.valid
                   THEN \* raise ValueError(f"Invalid input: ...")
                        /\ pc' = "raised"
                        /\ UNCHANGED <<classification, confidence, plan, classifierCalls>>
                   ELSE IF DictGet(v, "risk_level") = "high"
                   THEN \* return None, "high", action_plan
                        /\ classification' = NoClassification
                        /\ confidence' = "high"
                        /\ plan' = DangerPlan
                        /\ pc' = "done"
                        /\ UNCHANGED classifierCalls
                   ELSE /\ classifierCalls' = classifierCalls + 1
                        /\ \/ \* classifier.classify(query) raises
                              /\ pc' = "raised"
                              /\ UNCHANGED <<classification, confidence, plan>>
                           \/ \E label \in labels, score \in Scores :
                                 /\ classification' = [label |-> label, score |-> score]
                                 /\ confidence' = compute_confidence(score)
                                 /\ plan' = create_plan(classification', confidence')
                                 /\ pc' = "done"
    /\ UNCHANGED <<variant, steps, confCalls>>
    /\ UNCHANGED <<pipelineVars, retrievalVars, httpVars, formatVars, cleanerVars, pageVars, llmVars, handlerVars>>

Next ==
    \/ CallClassifyQuestion
    \/ CallTriagePipeline
    \/ Validate
    \/ SafetyScreen
    \/ Preprocess
    \/ Classify
    \/ ClassifyRaises
    \/ Confidence
    \/ Plan
    \/ CallCreatePlan
    \/ CallComputeConfidence

Spec == Init /\ [][Next]_vars

(***************************************************************************)
(* The triage call as one function of the question and of the classifier's *)
(* answer: what classify_question returns when the classifier answers.     *)
(***************************************************************************)
classify_question(q, answer) ==
    LET v == validate_input(q)
    IN  IF ~v.valid THEN InvalidPlan
        ELSE IF DictGet(v, "risk_level") = "high" THEN DangerPlan
        ELSE create_plan(answer, compute_confidence(answer.score))

(***************************************************************************)
(* orchestractor.py: the end-to-end flow.                                  *)
(*                                                                         *)
(* The module binds classify_question, search_dataset and search_apis only *)
(* in the `except ImportError` branch of the matching import.  A name left *)
(* unbound raises NameError where process_question uses it.                *)
(***************************************************************************)
\* noussaiba_mdaghri/orchestrator.py does not exist (the file is
\* orchestrateur.py), so that import always fails and search_apis is bound
ImportOutcomes ==
    {b \in SUBSET {"classify_question", "search_dataset", "search_apis"} :
        "search_apis" \in b}

OracleAnswers == {[label |-> l, score |-> s] : l \in labels, s \in Scores}

PipelineQuestions == {
    <<"a","b">>,
    <<"w","h","a","t"," ","i","s"," ","f","l","u","?">>,
    <<"h","o","w"," ","t","o"," ","o","v","e","r","d","o","s","e">>,
    <<"f","l","u"," ","o","r"," ","c","o","l","d","?">>,
    <<"d","e","f","i","n","e"," ","a","s","t","h","m","a">>,
    <<"C","P","R"," ","s","t","e","p","s">>,
    <<"S","u","i","c","i","d","e"," ","r","i","s","k">>,
    <<"d","i","a","b","e","t","e","s">> }

\* the mock classify_question of orchestractor.py
mock_classify_question(q) ==
    LET question_lower == Lower(q)
    IN  IF /\ Contains(q, <<"?">>)
           /\ \/ Contains(question_lower, <<"o","r">>)
              \/ Contains(question_lower, <<"w","h","i","c","h">>)
        THEN "qcm"
        ELSE IF \/ Contains(question_lower, <<"h","o","w"," ","t","o">>)
                \/ Contains(question_lower, <<"s","t","e","p">>)
        THEN "stepwise"
        ELSE IF \/ Contains(question_lower, <<"w","h","a","t"," ","i","s">>)
                \/ Contains(question_lower, <<"d","e","f","i","n","e">>)
        THEN "definition"
        ELSE "definition"

\* the mock search_dataset: medical_info, in insertion order, with the
\* length of each canned text
medical_info == <<
    [keyword |-> <<"d","i","a","b","e","t","e","s">>, length |-> 61],
    [keyword |-> <<"h","y","p","e","r","t","e","n","s","i","o","n">>, length |-> 49],
    [keyword |-> <<"a","s","t","h","m","a">>, length |-> 58],
    [keyword |-> <<"c","p","r">>, length |-> 53] >>

\* a returned text is kept as what it is about and how long it is
mock_search_dataset(q) ==
    LET hits == {i \in DOMAIN medical_info :
                    Contains(Lower(q), medical_info[i].keyword)}
    IN  IF hits # {}
        THEN LET i == CHOOSE i \in hits : \A j \in hits : i <= j
             IN  [about |-> medical_info[i].keyword, length |-> medical_info[i].length]
        ELSE [about |-> q, length |-> 40 + Len(q)]

\* the mock search_apis
mock_search_apis(q) == [about |-> q, length |-> 46 + Len(q)]

NoInfo == [pending |-> TRUE]

PipelineInit ==
    /\ TriageRest
    /\ RetrievalRest
    /\ HttpRest
    /\ FormatRest
    /\ CleanerRest
    /\ PageRest
    /\ LlmRest
    /\ HandlerRest
    /\ bound \in ImportOutcomes
    /\ ppc = "idle"
    /\ user_question = <<>>
    /\ oracle = NoClassification
    /\ question_type = "none"
    /\ dataset_info = NoInfo
    /\ api_info = NoInfo
    /\ generateCalls = 0
    /\ result = NoResult

\* a caller invokes Orchestrateur.process_question(q); `answer` is what the
\* triage classifier would answer for q (the flow never asks it)
CallProcessQuestion ==
    /\ ppc = "idle"
    /\ \E q \in PipelineQuestions, answer \in OracleAnswers :
          /\ user_question' = q
          /\ oracle' = answer
    /\ ppc' = "classify"
    /\ UNCHANGED <<bound, question_type, dataset_info, api_info, generateCalls, result>>
    /\ UNCHANGED <<triageVars, retrievalVars, httpVars, formatVars, cleanerVars, pageVars, llmVars, handlerVars>>

\* question_type = classify_question(user_question)
ProcessClassify ==
    /\ ppc = "classify"
    /\ IF "classify_question" \in bound
       THEN /\ question_type' = mock_classify_question(user_question)
            /\ ppc' = "search_dataset"
            /\ result' = result
       ELSE /\ question_type' = question_type
            /\ ppc' = "raised"
            /\ result' = [raised |-> "NameError", name |-> "classify_question"]
    /\ UNCHANGED <<bound, user_question, oracle, dataset_info, api_info, generateCalls>>
    /\ UNCHANGED <<triageVars, retrievalVars, httpVars, formatVars, cleanerVars, pageVars, llmVars, handlerVars>>

\* dataset_info = search_dataset(user_question)
ProcessSearchDataset ==
    /\ ppc = "search_dataset"
    /\ IF "search_dataset" \in bound
       THEN /\ dataset_info' = mock_search_dataset(user_question)
            /\ ppc' = "search_apis"
            /\ result' = result
       ELSE /\ dataset_info' = dataset_info
            /\ ppc' = "raised"
            /\ result' = [raised |-> "NameError", name |-> "search_dataset"]
    /\ UNCHANGED <<bound, user_question, oracle, question_type, api_info, generateCalls>>
    /\ UNCHANGED <<triageVars, retrievalVars, httpVars, formatVars, cleanerVars, pageVars, llmVars, handlerVars>>

\* api_info = search_apis(user_question)
ProcessSearchApis ==
    /\ ppc = "search_apis"
    /\ IF "search_apis" \in bound
       THEN /\ api_info' = mock_search_apis(user_question)
            /\ ppc' = "generate"
            /\ result' = result
       ELSE /\ api_info' = api_info
            /\ ppc' = "raised"
            /\ result' = [raised |-> "NameError", name |-> "search_apis"]
    /\ UNCHANGED <<bound, user_question, oracle, question_type, dataset_info, generateCalls>>
    /\ UNCHANGED <<triageVars, retrievalVars, httpVars, formatVars, cleanerVars, pageVars, llmVars, handlerVars>>

\* result = self.aya_sindel.process_question(...), then the returned dict.
\* LLMHandler.process_question builds the prompt and calls
\* self.llm_client.generate(prompt); an exception before the call (prompted =
\* FALSE) or after it gives status "error", and nothing is raised.
ProcessGenerate ==
    /\ ppc = "generate"
    /\ \E prompted \in BOOLEAN, status \in {"success", "error"} :
          /\ ~prompted => status = "error"
          /\ generateCalls' = IF prompted THEN generateCalls + 1 ELSE generateCalls
          /\ result' = [answer |-> IF status = "success" THEN "generated"
                                   ELSE "error template",
                        question_type |-> question_type,
                        dataset_length |-> dataset_info.length,
                        api_length |-> api_info.length,
                        status |-> status,
                        full_pipeline |-> TRUE]
    /\ ppc' = "done"
    /\ UNCHANGED <<bound, user_question, oracle, question_type, dataset_info, api_info>>
    /\ UNCHANGED <<triageVars, retrievalVars, httpVars, formatVars, cleanerVars, pageVars, llmVars, handlerVars>>

PipelineNext ==
    \/ CallProcessQuestion
    \/ ProcessClassify
    \/ ProcessSearchDataset
    \/ ProcessSearchApis
    \/ ProcessGenerate

PipelineSpec == PipelineInit /\ [][PipelineNext]_vars

(***************************************************************************)
(* models.py: APIResponse, the envelope of a retrieval.  The timestamp is  *)
(* left out: nothing reads it.                                             *)
(***************************************************************************)
APIResponse(query) ==
    [query |-> query, results |-> <<>>, success |-> TRUE, errors |-> <<>>]

add_result(resp, r) == [resp EXCEPT !.results = Append(@, r)]

\* mutant: recording an error leaves success as it was
add_error_keeps_success(resp, e) == [resp EXCEPT !.errors = Append(@, e)]

add_error(resp, e) == [resp EXCEPT !.errors = Append(@, e), !.success = FALSE]

\* for result in rs: response.add_result(result)
RECURSIVE add_results(_, _)
add_results(resp, rs) ==
    IF rs = <<>> THEN resp
    ELSE add_results(add_result(resp, Head(rs)), Tail(rs))

(***************************************************************************)
(* What http_client.get gives an adapter: it raises (after its retries) or *)
(* it returns the parsed body.  A body either lacks the key the adapter    *)
(* reads ('query' / 'results'; the {"text": ...} of a non-JSON body is     *)
(* such a body), or holds null under it, or holds a list of items.  An     *)
(* item is "ok" when the adapter's parser makes a result of it and "bad"   *)
(* when the parser returns None (no title, no reaction, not an object).    *)
(***************************************************************************)
\* longest list of items an upstream API answers with
MaxItems == 2

ItemKinds == {"ok", "bad"}
ItemLists == UNION {[1..n -> ItemKinds] : n \in 0..MaxItems}
GetExceptions == {"Timeout", "ConnectionError", "HTTPError"}
GetOutcomes ==
    {[raised |-> e] : e \in GetExceptions} \cup
    {[missing |-> TRUE], [null |-> TRUE]} \cup
    {[items |-> l] : l \in ItemLists}

Raised(x) == "raised" \in DOMAIN x
Min(a, b) == IF a <= b THEN a ELSE b

\* the results a parser makes of the items of a list: the i-th item of the
\* upstream list gives a result that carries i, a "bad" item gives None
RECURSIVE ParseItems(_, _, _, _)
ParseItems(source, op, items, i) ==
    IF i > Len(items) THEN <<>>
    ELSE (IF items[i] = "ok"
          THEN <<[source |-> source, op |-> op, item |-> i]>>
          ELSE <<>>) \o ParseItems(source, op, items, i + 1)

\* mutant: the adapter method has no except clause
PropagateException(body) == body

\* the `except Exception: return []` around the body of an adapter method
ReturnEmptyOnException(body) == IF Raised(body) THEN [value |-> <<>>] ELSE body

(***************************************************************************)
(* wikipedia.py: WikipediaClient.search                                    *)
(***************************************************************************)
\* the body of the try: every item of data['query']['search'] is parsed
WikipediaSearchBody(got, n) ==
    IF Raised(got) THEN got
    ELSE IF "missing" \in DOMAIN got THEN [value |-> <<>>]
    ELSE IF "null" \in DOMAIN got THEN [raised |-> "TypeError"]
    ELSE [value |-> ParseItems("wikipedia", "search", got.items, 1)]

WikipediaClient_search(got, n) == ReturnEmptyOnException(WikipediaSearchBody(got, n))

(***************************************************************************)
(* openfda.py: OpenFDAClient.search_drugs, search_adverse_effects          *)
(***************************************************************************)
\* the body of the try of either method: data['results'][:max_results]
OpenFDASearchBody(op, got, n) ==
    IF Raised(got) THEN got
    ELSE IF "missing" \in DOMAIN got THEN [value |-> <<>>]
    ELSE IF "null" \in DOMAIN got THEN [raised |-> "TypeError"]
    ELSE [value |-> ParseItems("openfda", op,
                               SubSeq(got.items, 1, Min(n, Len(got.items))), 1)]

search_drugs(got, n) ==
    ReturnEmptyOnException(OpenFDASearchBody("search_drugs", got, n))

search_adverse_effects(got, n) ==
    ReturnEmptyOnException(OpenFDASearchBody("search_adverse_effects", got, n))

(***************************************************************************)
(* noussaiba_mdaghri/orchestrateur.py: PersonCOrchestrator                 *)
(***************************************************************************)
medical_keywords == <<
    <<"m","é","d","i","c","a","m","e","n","t">>,
    <<"m","e","d","i","c","a","m","e","n","t">>,
    <<"p","i","l","l","u","l","e">>,
    <<"c","o","m","p","r","i","m","é">>,
    <<"t","r","a","i","t","e","m","e","n","t">>,
    <<"s","y","m","p","t","ô","m","e">>,
    <<"s","y","m","p","t","o","m","e">>,
    <<"m","a","l","a","d","i","e">>,
    <<"d","i","a","g","n","o","s","t","i","c">>,
    <<"e","f","f","e","t"," ","s","e","c","o","n","d","a","i","r","e">>,
    <<"d","o","s","e">>,
    <<"p","o","s","o","l","o","g","i","e">>,
    <<"c","o","n","t","r","e","-","i","n","d","i","c","a","t","i","o","n">>,
    <<"i","n","t","e","r","a","c","t","i","o","n">>,
    <<"a","s","p","i","r","i","n">>,
    <<"a","s","p","i","r","i","n","e">>,
    <<"p","a","r","a","c","e","t","a","m","o","l">>,
    <<"i","b","u","p","r","o","f","è","n","e">>,
    <<"i","b","u","p","r","o","f","e","n","e">>,
    <<"v","a","c","c","i","n">>,
    <<"c","a","n","c","e","r">>,
    <<"d","i","a","b","è","t","e">>,
    <<"d","i","a","b","e","t","e">>,
    <<"c","a","r","d","i","a","q","u","e">>,
    <<"f","o","i","e">>,
    <<"r","e","i","n">>,
    <<"p","o","u","m","o","n">>,
    <<"c","e","r","v","e","a","u">>,
    <<"s","a","n","g">>,
    <<"t","e","n","s","i","o","n">>,
    <<"c","h","o","l","e","s","t","é","r","o","l">>,
    <<"a","l","l","e","r","g","i","e">>,
    <<"i","n","f","e","c","t","i","o","n">>,
    <<"v","i","r","u","s">>,
    <<"b","a","c","t","é","r","i","e">>,
    <<"b","a","c","t","e","r","i","e">>
>>

\* mutant: every question that is not empty looks medical
_looks_medical_always(q) == Len(q) > 0

_looks_medical(q) ==
    \E question_lower \in {Lower(q)} :
        \E i \in DOMAIN medical_keywords :
            Contains(question_lower, medical_keywords[i])

RetrievalQuestions == {
    <<"a","s","p","i","r","i","n">>,
    <<"C","A","N","C","E","R">>,
    <<"g","r","i","p","p","e">>,
    <<"h","e","l","l","o">>,
    <<"E","f","f","e","t"," ","S","e","c","o","n","d","a","i","r","e">>
}

\* the values search_apis and search_specific are called with for max_results
MaxResultsArgs == {1, 3}
Sources == {"wikipedia", "openfda", "all", "pubmed"}

\* the string f"{source} error: {str(e)}" of an except clause
ErrorMsg(source, e) == [source |-> source, text |-> " error: ", message |-> e]

IsBound(local) == "unbound" \notin DOMAIN local

\* orchestrator.search_apis(question, max_results): response = APIResponse(question)
CallSearchApis ==
    /\ rpc = "idle"
    /\ rentry = "none"
    /\ rentry' = "search_apis"
    /\ rsource' = "none"
    /\ \E q \in RetrievalQuestions, n \in MaxResultsArgs :
          /\ rquestion' = q
          /\ max_results' = n
          /\ response' = APIResponse(q)
    /\ wiki_results' = Unbound
    /\ drug_results' = Unbound
    /\ adverse_results' = Unbound
    /\ fetched' = <<>>
    /\ calling' = NoCalling
    /\ rpc' = "wikipedia"
    /\ UNCHANGED <<triageVars, pipelineVars, httpVars, formatVars, cleanerVars, pageVars, llmVars, handlerVars>>

\* orchestrator.search_specific(question, source, max_results)
CallSearchSpecific ==
    /\ rpc = "idle"
    /\ rentry = "none"
    /\ rentry' = "search_specific"
    /\ \E q \in RetrievalQuestions, src \in Sources, n \in MaxResultsArgs :
          /\ rquestion' = q
          /\ rsource' = src
          /\ max_results' = n
          /\ response' = APIResponse(q)
          /\ rpc' = IF src \in {"wikipedia", "all"} THEN "wikipedia"
                    ELSE IF src \in {"openfda", "all"} THEN "drugs"
                    ELSE "done"
    /\ wiki_results' = Unbound
    /\ drug_results' = Unbound
    /\ adverse_results' = Unbound
    /\ fetched' = <<>>
    /\ calling' = NoCalling
    /\ UNCHANGED <<triageVars, pipelineVars, httpVars, formatVars, cleanerVars, pageVars, llmVars, handlerVars>>

\* the orchestrator enters an adapter: self.wikipedia.search(question,
\* max_results=max_results), self.openfda.search_drugs(question,
\* max_results=max_results) or
\* self.openfda.search_adverse_effects(question, max_results=1); the
\* orchestrator goes on when the adapter has returned
CallAdapter ==
    /\ rpc \in {"wikipedia", "drugs", "adverse"}
    /\ calling = NoCalling
    /\ calling' = IF rpc = "wikipedia" THEN [op |-> "search", n |-> max_results]
                  ELSE IF rpc = "drugs" THEN [op |-> "search_drugs", n |-> max_results]
                  ELSE [op |-> "search_adverse_effects", n |-> 1]
    /\ UNCHANGED <<rentry, rpc, rquestion, rsource, max_results, response,
                   wiki_results, drug_results, adverse_results, fetched>>
    /\ UNCHANGED <<triageVars, pipelineVars, httpVars, formatVars, cleanerVars, pageVars, llmVars, handlerVars>>

\* whether the OpenFDA block follows the Wikipedia block
OpenFDAQueried ==
    IF rentry = "search_apis" THEN _looks_medical(rquestion)
    ELSE rsource \in {"openfda", "all"}

\* mutant: search_apis returns as soon as Wikipedia gave a result
SearchWikipediaEarlyExit ==
    /\ rpc = "wikipedia"
    /\ calling.op = "search"
    /\ calling' = NoCalling
    /\ \E got \in GetOutcomes :
          \E gave \in {WikipediaClient_search(got, calling.n)} :
             /\ fetched' = Append(fetched, [op |-> "search", n |-> calling.n,
                                            got |-> got, gave |-> gave])
             /\ IF Raised(gave)
                THEN /\ response' = add_error(response, ErrorMsg("Wikipedia", gave.raised))
                     /\ UNCHANGED wiki_results
                     /\ rpc' = IF OpenFDAQueried THEN "drugs" ELSE "done"
                ELSE /\ wiki_results' = gave
                     /\ response' = add_results(response, gave.value)
                     /\ rpc' = IF OpenFDAQueried /\ gave.value = <<>>
                               THEN "drugs" ELSE "done"
    /\ UNCHANGED <<rentry, rquestion, rsource, max_results, drug_results, adverse_results>>
    /\ UNCHANGED <<triageVars, pipelineVars, httpVars, formatVars, cleanerVars, pageVars, llmVars, handlerVars>>

\* the Wikipedia try block: self.wikipedia.search, add_result for each
\* result, and the except clause that records "Wikipedia error: ..."
SearchWikipedia ==
    /\ rpc = "wikipedia"
    /\ calling.op = "search"
    /\ calling' = NoCalling
    /\ \E got \in GetOutcomes :
          \E gave \in {WikipediaClient_search(got, calling.n)} :
             /\ fetched' = Append(fetched, [op |-> "search", n |-> calling.n,
                                            got |-> got, gave |-> gave])
             /\ IF Raised(gave)
                THEN /\ response' = add_error(response, ErrorMsg("Wikipedia", gave.raised))
                     /\ UNCHANGED wiki_results
                ELSE /\ wiki_results' = gave
                     /\ response' = add_results(response, gave.value)
    /\ rpc' = IF OpenFDAQueried THEN "drugs" ELSE "done"
    /\ UNCHANGED <<rentry, rquestion, rsource, max_results, drug_results, adverse_results>>
    /\ UNCHANGED <<triageVars, pipelineVars, httpVars, formatVars, cleanerVars, pageVars, llmVars, handlerVars>>

\* the OpenFDA try block, first part: self.openfda.search_drugs and
\* add_result for each result; search_apis goes on to the adverse effects
\* only `if drug_results`
SearchDrugs ==
    /\ rpc = "drugs"
    /\ calling.op = "search_drugs"
    /\ calling' = NoCalling
    /\ \E got \in GetOutcomes :
          \E gave \in {search_drugs(got, calling.n)} :
             /\ fetched' = Append(fetched, [op |-> "search_drugs", n |-> calling.n,
                                            got |-> got, gave |-> gave])
             /\ IF Raised(gave)
                THEN /\ response' = add_error(response, ErrorMsg("OpenFDA", gave.raised))
                     /\ UNCHANGED drug_results
                     /\ rpc' = "done"
                ELSE /\ drug_results' = gave
                     /\ response' = add_results(response, gave.value)
                     /\ rpc' = IF rentry = "search_apis" /\ gave.value = <<>>
                               THEN "log" ELSE "adverse"
    /\ UNCHANGED <<rentry, rquestion, rsource, max_results, wiki_results, adverse_results>>
    /\ UNCHANGED <<triageVars, pipelineVars, httpVars, formatVars, cleanerVars, pageVars, llmVars, handlerVars>>

\* the OpenFDA try block, second part:
\* self.openfda.search_adverse_effects(question, max_results=1)
SearchAdverseEffects ==
    /\ rpc = "adverse"
    /\ calling.op = "search_adverse_effects"
    /\ calling' = NoCalling
    /\ \E got \in GetOutcomes :
          \E gave \in {search_adverse_effects(got, calling.n)} :
             /\ fetched' = Append(fetched, [op |-> "search_adverse_effects",
                                            n |-> calling.n,
                                            got |-> got, gave |-> gave])
             /\ IF Raised(gave)
                THEN /\ response' = add_error(response, ErrorMsg("OpenFDA", gave.raised))
                     /\ UNCHANGED adverse_results
                     /\ rpc' = "done"
                ELSE /\ adverse_results' = gave
                     /\ response' = add_results(response, gave.value)
                     /\ rpc' = IF rentry = "search_apis" THEN "log" ELSE "done"
    /\ UNCHANGED <<rentry, rquestion, rsource, max_results, wiki_results, drug_results>>
    /\ UNCHANGED <<triageVars, pipelineVars, httpVars, formatVars, cleanerVars, pageVars, llmVars, handlerVars>>

\* mutant: the except clause of the OpenFDA block is missing, the exception
\* of the logging line leaves search_apis
LogOpenFDAUncaught ==
    /\ rpc = "log"
    /\ rpc' = IF IsBound(adverse_results) THEN "done" ELSE "raised"
    /\ UNCHANGED <<rentry, rquestion, rsource, max_results, response, wiki_results,
                   drug_results, adverse_results, fetched, calling>>
    /\ UNCHANGED <<triageVars, pipelineVars, httpVars, formatVars, cleanerVars, pageVars, llmVars, handlerVars>>

\* search_apis only, the last line of the OpenFDA try block:
\* logger.info(f"... {len(drug_results) + len(adverse_results)} ...") reads
\* adverse_results, a name assigned only `if drug_results`; the
\* UnboundLocalError is caught by the except clause of the block
LogOpenFDA ==
    /\ rpc = "log"
    /\ response' = IF IsBound(adverse_results) THEN response
                   ELSE add_error(response, ErrorMsg("OpenFDA", "UnboundLocalError"))
    /\ rpc' = "done"
    /\ UNCHANGED <<rentry, rquestion, rsource, max_results, wiki_results,
                   drug_results, adverse_results, fetched, calling>>
    /\ UNCHANGED <<triageVars, pipelineVars, httpVars, formatVars, cleanerVars, pageVars, llmVars, handlerVars>>

(***************************************************************************)
(* orchestrateur.py: PersonCOrchestrator.format_for_llm                    *)
(***************************************************************************)
\* if len(clean_content) > 200: clean_content = clean_content[:200] + "..."
PreviewLength == 200

UpperMap ==
    LET Pair(i) == LowerCase[i] :> UpperCase[i]
        Table[i \in 1..Len(LowerCase)] ==
            IF i = 1 THEN Pair(1) ELSE Table[i - 1] @@ Pair(i)
    IN  Table[Len(LowerCase)]

UpperChar(c) == IF c \in DOMAIN UpperMap THEN UpperMap[c] ELSE c
Upper(text) == SubSeq([i \in 1..Len(text) |-> UpperChar(text[i])], 1, Len(text))

Digits == <<"0","1","2","3","4","5","6","7","8","9">>

\* the decimal digits of a natural number, as f"{i}" writes it
RECURSIVE str(_)
str(n) == IF n < 10 THEN <<Digits[n + 1]>>
          ELSE str(n \div 10) \o <<Digits[(n % 10) + 1]>>

Repeat(c, n) == SubSeq([i \in 1..n |-> c], 1, n)

\* the source of a result as text: "wikipedia" (wikipedia.py:134) or
\* "openfda" (openfda.py:168, 236)
SourceText(source) ==
    IF source = "wikipedia" THEN <<"w","i","k","i","p","e","d","i","a">>
    ELSE <<"o","p","e","n","f","d","a">>

\* the title the parser gave the result made of the i-th upstream item
title(r) ==
    (IF r.op = "search" THEN <<"P","a","g","e"," ">>
     ELSE IF r.op = "search_drugs" THEN <<"D","r","u","g"," ">>
     ELSE <<"E","f","f","e","t","s"," ","s","e","c","o","n","d","a","i","r","e","s"," ","-"," ">>) \o str(r.item)

\* the content the parser gave the result: a Wikipedia snippet of 201
\* characters for the first item and of 200 for the others, a drug label
\* with two sections joined by a blank line for the first item and with no
\* section for the others, an adverse-event report of two lines
content(r) ==
    IF r.op = "search"
    THEN (IF r.item = 1 THEN Repeat("w", PreviewLength + 1) ELSE Repeat("w", PreviewLength))
    ELSE IF r.op = "search_drugs"
    THEN (IF r.item = 1 THEN <<"D","e","s","c","r","i","p","t","i","o","n",":"," ","d","\n","\n","D","o","s","a","g","e",":"," ","d">> ELSE <<>>)
    ELSE <<"M","é","d","i","c","a","m","e","n","t",":"," ","m","\n","G","r","a","v","i","t","é",":"," ","G","r","a","v","e">>

\* the place of the line feed at i within its run of line feeds
RunOffset(text, i) == Cardinality({j \in 1..i : \A k \in j..i : text[k] = "\n"})

\* text.replace('\n\n', '\n'): the occurrences are replaced from the left,
\* without overlap, so of every run of line feeds the second, the fourth,
\* ... are dropped; the characters of text[lo..hi] that are kept
RECURSIVE replace_blank_lines(_, _, _)
replace_blank_lines(text, lo, hi) ==
    IF lo > hi THEN <<>>
    ELSE IF lo = hi
    THEN (IF text[lo] = "\n" /\ RunOffset(text, lo) % 2 = 0 THEN <<>> ELSE <<text[lo]>>)
    ELSE LET mid == (lo + hi) \div 2
         IN  replace_blank_lines(text, lo, mid) \o replace_blank_lines(text, mid + 1, hi)

\* result.content.replace('\n\n', '\n').strip(); each value is worked out
\* once
stripped_content(text) ==
    CHOOSE stripped \in {Strip(replaced) :
                            replaced \in {replace_blank_lines(given, 1, Len(given)) :
                                             given \in {text}}} : TRUE

\* mutant: the cleaned content is not cut
clean_content_uncut(text) == stripped_content(text)

\* clean_content = result.content.replace('\n\n', '\n').strip(), cut to
\* its first 200 characters followed by "..." when it is longer
clean_content(text) ==
    CHOOSE cut \in {IF Len(stripped) > PreviewLength
                    THEN SubSeq(stripped, 1, PreviewLength) \o <<".", ".", ".">>
                    ELSE stripped : stripped \in {stripped_content(text)}} : TRUE

\* the loop that fills by_source, a dict: a source is entered when its
\* first result is met and keeps that place
RECURSIVE by_source(_, _, _)
by_source(results, i, groups) ==
    IF i > Len(results) THEN groups
    ELSE LET res == results[i]
             at == {k \in DOMAIN groups : groups[k].source = res.source}
         IN  IF at = {}
             THEN by_source(results, i + 1,
                            Append(groups, [source |-> res.source,
                                            results |-> <<res>>]))
             ELSE by_source(results, i + 1,
                            [groups EXCEPT ![CHOOSE k \in at : TRUE].results =
                                                Append(@, res)])

\* for i, result in enumerate(results[:max_results_per_source], 1)
RECURSIVE format_results(_, _, _)
format_results(results, i, limit) ==
    IF i > Min(Len(results), limit) THEN <<>>
    ELSE str(i) \o <<".", " ">> \o title(results[i]) \o <<"\n">>
         \o <<" ", " ", " ">> \o clean_content(content(results[i])) \o <<"\n", "\n">>
         \o format_results(results, i + 1, limit)

\* for source, results in by_source.items()
RECURSIVE format_sections(_, _, _)
format_sections(groups, k, limit) ==
    IF k > Len(groups) THEN <<>>
    ELSE <<"=", "=", "=", " ">> \o Upper(SourceText(groups[k].source))
         \o <<" ", "=", "=", "=", "\n">>
         \o format_results(groups[k].results, 1, limit)
         \o format_sections(groups, k + 1, limit)

\* mutant: the question is left out of the message
no_information_bare(q) == <<"A","u","c","u","n","e"," ","i","n","f","o","r","m","a","t","i","o","n"," ","e","x","t","e","r","n","e"," ","t","r","o","u","v","é","e"," ","p","o","u","r",":"," ">>

\* f"Aucune information externe trouvée pour: {question}"
no_information(q) == <<"A","u","c","u","n","e"," ","i","n","f","o","r","m","a","t","i","o","n"," ","e","x","t","e","r","n","e"," ","t","r","o","u","v","é","e"," ","p","o","u","r",":"," ">> \o q

\* the text format_for_llm makes of the envelope search_apis returned
format_text(q, resp, limit) ==
    IF resp.results = <<>> THEN no_information(q)
    ELSE <<"I","N","F","O","R","M","A","T","I","O","N","S"," ","E","X","T","E","R","N","E","S"," ","P","O","U","R",":"," ","'">> \o q \o <<"'", "\n", "\n">>
         \o (CHOOSE sections \in {format_sections(groups, 1, limit) :
                                      groups \in {by_source(resp.results, 1, <<>>)}} : TRUE)

\* the values format_for_llm is called with for max_results_per_source
MaxPerSourceArgs == {1, 2}

\* orchestrator.format_for_llm(question, max_results_per_source): its first
\* statement is response = self.search_apis(question), with the default
\* max_results = 3
CallFormatForLlm ==
    /\ rpc = "idle"
    /\ rentry = "none"
    /\ fpc = "idle"
    /\ fpc' = "searching"
    /\ rentry' = "search_apis"
    /\ rsource' = "none"
    /\ max_results' = 3
    /\ \E q \in RetrievalQuestions, limit \in MaxPerSourceArgs :
          /\ rquestion' = q
          /\ max_results_per_source' = limit
          /\ response' = APIResponse(q)
    /\ wiki_results' = Unbound
    /\ drug_results' = Unbound
    /\ adverse_results' = Unbound
    /\ fetched' = <<>>
    /\ calling' = NoCalling
    /\ rpc' = "wikipedia"
    /\ UNCHANGED formatted
    /\ UNCHANGED <<triageVars, pipelineVars, httpVars, cleanerVars, pageVars, llmVars, handlerVars>>

\* format_for_llm after search_apis returned: the text is built and returned
FormatForLlm ==
    /\ fpc = "searching"
    /\ rentry = "search_apis" /\ rpc = "done"
    /\ formatted' = format_text(rquestion, response, max_results_per_source)
    /\ fpc' = "done"
    /\ UNCHANGED max_results_per_source
    /\ UNCHANGED <<triageVars, pipelineVars, retrievalVars, httpVars, cleanerVars, pageVars, llmVars, handlerVars>>

(***************************************************************************)
(* Direct users of the envelope (tests): an APIResponse is built, then     *)
(* results and errors are added in any order.                              *)
(***************************************************************************)
\* largest number of add_result / add_error calls made on one APIResponse
MaxAdds == 4

SomeResults == {[source |-> src, op |-> "search", item |-> i] :
                    src \in {"wikipedia", "openfda"}, i \in 1..2}
SomeErrors == {ErrorMsg(src, e) : src \in {"Wikipedia", "OpenFDA"},
                                  e \in {"Timeout", "HTTPError"}}

NewAPIResponse ==
    /\ rpc = "idle"
    /\ rentry = "none"
    /\ rentry' = "APIResponse"
    /\ \E q \in RetrievalQuestions : response' = APIResponse(q)
    /\ UNCHANGED <<rpc, rquestion, rsource, max_results, wiki_results, drug_results,
                   adverse_results, fetched, calling>>
    /\ UNCHANGED <<triageVars, pipelineVars, httpVars, formatVars, cleanerVars, pageVars, llmVars, handlerVars>>

AddResult ==
    /\ rentry = "APIResponse"
    /\ Len(response.results) + Len(response.errors) < MaxAdds
    /\ \E r \in SomeResults : response' = add_result(response, r)
    /\ UNCHANGED <<rentry, rpc, rquestion, rsource, max_results, wiki_results,
                   drug_results, adverse_results, fetched, calling>>
    /\ UNCHANGED <<triageVars, pipelineVars, httpVars, formatVars, cleanerVars, pageVars, llmVars, handlerVars>>

AddError ==
    /\ rentry = "APIResponse"
    /\ Len(response.results) + Len(response.errors) < MaxAdds
    /\ \E e \in SomeErrors : response' = add_error(response, e)
    /\ UNCHANGED <<rentry, rpc, rquestion, rsource, max_results, wiki_results,
                   drug_results, adverse_results, fetched, calling>>
    /\ UNCHANGED <<triageVars, pipelineVars, httpVars, formatVars, cleanerVars, pageVars, llmVars, handlerVars>>

RetrievalNext ==
    \/ CallSearchApis
    \/ CallSearchSpecific
    \/ CallAdapter
    \/ SearchWikipedia
    \/ SearchDrugs
    \/ SearchAdverseEffects
    \/ LogOpenFDA
    \/ CallFormatForLlm
    \/ FormatForLlm
    \/ NewAPIResponse
    \/ AddResult
    \/ AddError

RetrievalSpec == Init /\ [][RetrievalNext]_vars

(***************************************************************************)
(* parsers.py: DataCleaner.clean_html, on raw texts without "&" (which     *)
(* html.unescape leaves as they are) whose tags are closed.                *)
(***************************************************************************)
\* the largest number of fragments a raw text is made of
MaxFragments == 3

\* the pieces the raw texts are made of: words, white space, a word in
\* bold and a reference mark
Fragments == {
    <<"a","b","c">>,
    <<"d","e">>,
    <<" ">>,
    <<"\n">>,
    <<"<","b",">","f","g","h","<","/","b",">">>,
    <<"<","s","u","p",">","1","<","/","s","u","p",">">>
}

RECURSIVE Flatten(_, _)
Flatten(pieces, i) ==
    IF i > Len(pieces) THEN <<>> ELSE pieces[i] \o Flatten(pieces, i + 1)

RawInputs ==
    {Flatten(pieces, 1) :
        pieces \in UNION {[1..k -> Fragments] : k \in 0..MaxFragments}}

\* the values clean_html is called with for max_length
MaxLengths == {2, 5}

\* the tags whose elements are removed with all they hold, as far as the
\* raw texts use them
Decomposed == {<<"s","u","p">>}

\* BeautifulSoup(decoded, 'lxml'), element.decompose() for the removed
\* elements and the strings soup.get_text joins: the text between two
\* tags is one string, the text inside a removed element is left out
RECURSIVE strings(_, _, _, _, _)
strings(raw, i, removed, current, found) ==
    IF i > Len(raw)
    THEN (IF current = <<>> THEN found ELSE Append(found, current))
    ELSE IF raw[i] = "<"
    THEN LET close == CHOOSE k \in i..Len(raw) :
                          /\ raw[k] = ">"
                          /\ \A j \in i..(k - 1) : raw[j] # ">"
             tag == SubSeq(raw, i + 1, close - 1)
             flushed == IF current = <<>> THEN found ELSE Append(found, current)
         IN  IF tag \in Decomposed
             THEN strings(raw, close + 1, TRUE, <<>>, flushed)
             ELSE IF tag # <<>> /\ tag[1] = "/" /\ Tail(tag) \in Decomposed
             THEN strings(raw, close + 1, FALSE, <<>>, flushed)
             ELSE strings(raw, close + 1, removed, <<>>, flushed)
    ELSE IF removed
    THEN strings(raw, i + 1, removed, current, found)
    ELSE strings(raw, i + 1, removed, Append(current, raw[i]), found)

\* separator.join(texts), for soup.get_text(separator='\n') and
\* '\n'.join(lines)
RECURSIVE join(_, _, _)
join(separator, texts, i) ==
    IF i > Len(texts) THEN <<>>
    ELSE (IF i > 1 THEN separator ELSE <<>>) \o texts[i] \o join(separator, texts, i + 1)

\* text.splitlines(): the lines of the text, the line feeds left out; a
\* line feed at the end starts no further line
RECURSIVE splitlines(_, _, _, _)
splitlines(text, i, current, found) ==
    IF i > Len(text)
    THEN (IF current = <<>> THEN found ELSE Append(found, current))
    ELSE IF text[i] = "\n"
    THEN splitlines(text, i + 1, <<>>, Append(found, current))
    ELSE splitlines(text, i + 1, Append(current, text[i]), found)

\* the loop over the lines: each is stripped and kept `if line and
\* len(line) > 2`
RECURSIVE kept_lines(_, _)
kept_lines(lines, i) ==
    IF i > Len(lines) THEN <<>>
    ELSE LET line == Strip(lines[i])
         IN  (IF line # <<>> /\ Len(line) > 2 THEN <<line>> ELSE <<>>)
             \o kept_lines(lines, i + 1)

\* if len(clean_text) > max_length: clean_text = clean_text[:max_length] + "..."
truncate(text, limit) ==
    IF Len(text) > limit
    THEN SubSeq(text, 1, limit) \o <<".", ".", ".">>
    ELSE text

clean_html(raw, limit, raises) ==
    IF raw = <<>> THEN <<>>
    ELSE IF raises THEN SubSeq(raw, 1, Min(Len(raw), limit))
    ELSE LET text == join(<<"\n">>, strings(raw, 1, FALSE, <<>>, <<>>), 1)
             lines == kept_lines(splitlines(text, 1, <<>>, <<>>), 1)
         IN  truncate(join(<<"\n">>, lines, 1), limit)

\* a clean_html call is about to be made
CleanerInit ==
    /\ TriageRest /\ PipelineRest /\ RetrievalRest /\ HttpRest /\ FormatRest /\ PageRest
    /\ LlmRest /\ HandlerRest
    /\ cpc = "called"
    /\ raw_html \in RawInputs
    /\ max_length \in MaxLengths
    /\ soup_raises \in BOOLEAN
    /\ clean_text = <<>>

\* cleaner.clean_html(raw_html, max_length) runs and returns
CleanHtml ==
    /\ cpc = "called"
    /\ clean_text' = clean_html(raw_html, max_length, soup_raises)
    /\ cpc' = "returned"
    /\ UNCHANGED <<raw_html, max_length, soup_raises>>
    /\ UNCHANGED <<triageVars, pipelineVars, retrievalVars, httpVars, formatVars, pageVars,
                   llmVars, handlerVars>>

CleanerNext == CleanHtml

CleanerSpec == CleanerInit /\ [][CleanerNext]_vars

(***************************************************************************)
(* wikipedia.py: WikipediaClient.get_page_content and _parse_full_page;    *)
(* models.py: the constructor of the dataclass APIResult.                  *)
(***************************************************************************)
\* the fields of APIResult; source, title and content have no default
APIResultFields == {"source", "title", "content", "url", "confidence", "metadata"}
APIResultRequired == {"source", "title", "content"}

\* APIResult(**given): the generated __init__ raises TypeError for a
\* keyword that is no field and for a missing required field
APIResult(given) ==
    IF DOMAIN given \subseteq APIResultFields /\ APIResultRequired \subseteq DOMAIN given
    THEN [value |-> given]
    ELSE [raised |-> "TypeError"]

IsDigit(c) == c \in {Digits[i] : i \in DOMAIN Digits}

\* re.sub(r'\[\d+\]', '', text): every "[", digits, "]" is taken out
RECURSIVE remove_citations(_, _)
remove_citations(text, i) ==
    IF i > Len(text) THEN <<>>
    ELSE LET ends == {j \in (i + 2)..Len(text) :
                         /\ text[i] = "["
                         /\ text[j] = "]"
                         /\ \A k \in (i + 1)..(j - 1) : IsDigit(text[k])}
         IN  IF ends # {}
             THEN remove_citations(text, (CHOOSE j \in ends : TRUE) + 1)
             ELSE <<text[i]>> \o remove_citations(text, i + 1)

\* the ids of the pages asked for and answered
PageIds == {1, 2}

\* the extracts a page record holds; each has fewer than 800 characters, so
\* that _parse_full_page makes no summary of it
Extracts == {<<>>, <<"I","n","t","r","o"," ","o","f"," ","t","h","e"," ","p","a","g","e",".">>, <<"I","n","t","r","o","[","1","2","]"," ","o","f"," ","t","h","e"," ","p","a","g","e",".">>}

\* a page record of data['query']['pages']: title, pageid, fullurl, and
\* an extract unless the key is missing
PageRecords ==
    {[title |-> <<"A","s","p","i","r","i","n","e">>, pageid |-> id, fullurl |-> "fullurl", extract |-> x] :
        id \in PageIds, x \in Extracts}
    \cup {[title |-> <<"A","s","p","i","r","i","n","e">>, pageid |-> id, fullurl |-> "fullurl"] : id \in PageIds}

\* what http_client.get gives get_page_content: an exception, a body
\* without 'query' or 'pages', or the page records by page id
PageOutcomes ==
    {[raised |-> x] : x \in GetExceptions} \cup {[missing |-> TRUE]}
    \cup {[pages |-> held] :
            held \in UNION {[ids -> PageRecords] : ids \in SUBSET PageIds}}

\* page_data.get(key, default)
PageGet(page_data, key, default) ==
    IF key \in DOMAIN page_data THEN page_data[key] ELSE default

\* WikipediaClient._parse_full_page: None without extract, else the
\* APIResult built from the page; an exception gives None
_parse_full_page(page_data) ==
    LET extract == PageGet(page_data, "extract", <<>>)
        cleaned == remove_citations(clean_html(extract, 1500, FALSE), 1)
        built == APIResult([title |-> PageGet(page_data, "title", <<>>),
                            content |-> cleaned,
                            url |-> PageGet(page_data, "fullurl", "None"),
                            page_id |-> PageGet(page_data, "pageid", "None"),
                            confidence |-> 900000])
    IN  IF extract = <<>> THEN [none |-> TRUE]
        ELSE IF Raised(built) THEN [none |-> TRUE]
        ELSE built

\* wikipedia_client.get_page_content(page_id) is called
CallGetPageContent ==
    /\ wpc = "idle"
    /\ \E id \in PageIds : page_id' = id
    /\ wpc' = "called"
    /\ UNCHANGED <<page_got, page_result>>
    /\ UNCHANGED <<triageVars, pipelineVars, retrievalVars, httpVars, formatVars, cleanerVars,
                   llmVars, handlerVars>>

\* the body of get_page_content: http_client.get, the tests of the body,
\* _parse_full_page; an exception gives None
GetPageContent ==
    /\ wpc = "called"
    /\ \E got \in PageOutcomes :
          /\ page_got' = got
          /\ page_result' =
                IF Raised(got) \/ "missing" \in DOMAIN got THEN [none |-> TRUE]
                ELSE IF page_id \notin DOMAIN got.pages THEN [none |-> TRUE]
                ELSE _parse_full_page(got.pages[page_id])
    /\ wpc' = "returned"
    /\ UNCHANGED page_id
    /\ UNCHANGED <<triageVars, pipelineVars, retrievalVars, httpVars, formatVars, cleanerVars,
                   llmVars, handlerVars>>

PageNext ==
    \/ CallGetPageContent
    \/ GetPageContent

PageSpec == Init /\ [][PageNext]_vars

(***************************************************************************)
(* aya_sindel/llm/llm.py: BLOOMClient (LLMClient is the same client made   *)
(* with model "bloom-1.7b"): generate, the response cache, the mock and    *)
(* the fallback responses.                                                 *)
(***************************************************************************)
\* the character U+0060 of the response texts, which no string of TLA+ holds
Backquote == "U+0060"

\* LLMClient(): model "bloom-1.7b" gives model_size "1.7b"
model_size == <<"1",".","7","b">>

\* requirements.get(self.model_size, "8-10 GB")
_get_memory_requirement == <<"6","-","8"," ","G","B">>

\* hours a cached response stays fresh
CacheHours == 24

\* the clock stops at this hour
MaxLlmClock == 24

\* the prompts generate is called with: ones that are empty after strip()
\* and ones that are not
Prompts == {<<" ","\n">>, <<"T","e","s","t"," ","c","a","c","h","e"," ","p","r","o","m","p","t">>, <<"W","h","a","t"," ","i","s","\n","d","i","a","b","e","t","e","s","?">>}

\* the max_retries arguments of generate
RetriesArgs == {0, 1, 2}

\* what tokenizer.decode gives before strip(): sampling gives different
\* texts for one prompt, among them text with nothing but white space
Decoded == {<<" ","\n">>, <<" ","I","n","s","u","l","i","n","."," ">>, <<"R","e","s","t",".">>}

\* what one generation attempt does: it decodes a text or raises
ModelOutcomes ==
    {[raised |-> "none", text |-> d] : d \in Decoded}
    \cup {[raised |-> "RuntimeError", text |-> <<"C","U","D","A"," ","o","u","t"," ","o","f"," ","m","e","m","o","r","y",".">>],
          [raised |-> "RuntimeError", text |-> <<"s","i","z","e"," ","m","i","s","m","a","t","c","h">>],
          [raised |-> "ValueError", text |-> <<"b","a","d"," ","i","n","p","u","t">>]}

EmptyPromptError == <<"E","r","r","o","r",":"," ","E","m","p","t","y"," ","p","r","o","m","p","t"," ","p","r","o","v","i","d","e","d">>
OutOfMemoryError == <<"E","r","r","o","r",":"," ","O","u","t"," ","o","f"," ","m","e","m","o","r","y","."," ","T","r","y"," ","u","s","i","n","g"," ","B","L","O","O","M","-","5","6","0","M"," ","o","r"," ","e","n","a","b","l","e"," ","q","u","a","n","t","i","z","a","t","i","o","n",".">>

\* characters of the prompt shown in the mock response
MockPreviewLength == 200

\* preview = prompt[:200].replace('\n', ' '), "..." added to a cut prompt
prompt_preview(asked) ==
    [i \in 1..Min(Len(asked), MockPreviewLength) |->
        IF asked[i] = "\n" THEN " " ELSE asked[i]]
    \o (IF Len(asked) > MockPreviewLength THEN <<".", ".", ".">> ELSE <<>>)

\* BLOOMClient._generate_mock_response
_generate_mock_response(asked) ==
    <<"*","*","B","L","O","O","M"," ","M","o","c","k"," ","R","e","s","p","o","n","s","e"," ","(","B","L","O","O","M","-">>
    \o model_size
    \o <<")","*","*","\n","\n","T","h","i","s"," ","i","s"," ","a"," ","m","o","c","k"," ","r","e","s","p","o","n","s","e"," ","b","e","c","a","u","s","e"," ","t","h","e"," ","B","L","O","O","M"," ","m","o","d","e","l"," ","i","s"," ","n","o","t"," ","l","o","a","d","e","d",".","\n","\n","T","o"," ","u","s","e"," ","t","h","e"," ","a","c","t","u","a","l"," ","B","L","O","O","M"," ","m","o","d","e","l",":","\n","1","."," ","I","n","s","t","a","l","l"," ","r","e","q","u","i","r","e","d"," ","p","a","c","k","a","g","e","s",":"," ",Backquote,"p","i","p"," ","i","n","s","t","a","l","l"," ","t","o","r","c","h"," ","t","r","a","n","s","f","o","r","m","e","r","s"," ","a","c","c","e","l","e","r","a","t","e"," ","b","i","t","s","a","n","d","b","y","t","e","s",Backquote,"\n","2","."," ","R","e","s","t","a","r","t"," ","t","h","e"," ","a","p","p","l","i","c","a","t","i","o","n","\n","\n","F","o","r"," ","n","o","w",","," ","h","e","r","e","'","s"," ","w","h","a","t"," ","B","L","O","O","M"," ","w","o","u","l","d"," ","a","n","a","l","y","z","e"," ","a","b","o","u","t"," ","y","o","u","r"," ","q","u","e","r","y",":","\n","\n","*","*","Q","u","e","r","y"," ","S","u","m","m","a","r","y",":","*","*"," ","Y","o","u","r"," ","q","u","e","s","t","i","o","n"," ","a","p","p","e","a","r","s"," ","t","o"," ","b","e"," ","a","b","o","u","t",":"," ">>
    \o prompt_preview(asked)
    \o <<"\n","\n","*","*","E","x","p","e","c","t","e","d"," ","B","L","O","O","M"," ","R","e","s","p","o","n","s","e",":","*","*","\n","B","L","O","O","M","-">>
    \o model_size
    \o <<" ","w","o","u","l","d"," ","p","r","o","v","i","d","e"," ","a"," ","d","e","t","a","i","l","e","d",","," ","m","u","l","t","i","l","i","n","g","u","a","l"," ","r","e","s","p","o","n","s","e"," ","b","a","s","e","d"," ","o","n"," ","i","t","s"," ","t","r","a","i","n","i","n","g"," ","d","a","t","a",".","\n","\n","*","*","N","o","t","e",":","*","*"," ","B","L","O","O","M"," ","i","s"," ","a"," ","1","0","0","%"," ","f","r","e","e",","," ","o","p","e","n","-","s","o","u","r","c","e"," ","m","o","d","e","l"," ","t","h","a","t"," ","r","u","n","s"," ","l","o","c","a","l","l","y"," ","o","n"," ","y","o","u","r"," ","m","a","c","h","i","n","e",".">>

\* BLOOMClient._generate_fallback_response
_generate_fallback_response(asked) ==
    <<"*","*","B","L","O","O","M","-">>
    \o model_size
    \o <<" ","R","e","s","p","o","n","s","e","*","*","\n","\n","I"," ","e","n","c","o","u","n","t","e","r","e","d"," ","a","n"," ","i","s","s","u","e"," ","g","e","n","e","r","a","t","i","n","g"," ","a"," ","c","o","m","p","l","e","t","e"," ","r","e","s","p","o","n","s","e"," ","w","i","t","h"," ","B","L","O","O","M","."," ","H","e","r","e","'","s"," ","w","h","a","t"," ","I"," ","c","a","n"," ","p","r","o","v","i","d","e",":","\n","\n","*","*","A","n","a","l","y","s","i","s"," ","o","f"," ","y","o","u","r"," ","q","u","e","r","y",":","*","*"," ","Y","o","u","r"," ","q","u","e","s","t","i","o","n"," ","r","e","q","u","i","r","e","s"," ","m","e","d","i","c","a","l"," ","k","n","o","w","l","e","d","g","e"," ","t","h","a","t"," ","B","L","O","O","M"," ","c","a","n"," ","p","r","o","v","i","d","e"," ","w","i","t","h"," ","p","r","o","p","e","r"," ","c","o","n","f","i","g","u","r","a","t","i","o","n",".","\n","\n","*","*","T","r","o","u","b","l","e","s","h","o","o","t","i","n","g"," ","s","t","e","p","s",":","*","*","\n","1","."," ","E","n","s","u","r","e"," ","y","o","u"," ","h","a","v","e"," ","e","n","o","u","g","h"," ","m","e","m","o","r","y"," ","(","B","L","O","O","M","-">>
    \o model_size
    \o <<" ","n","e","e","d","s"," ","~">>
    \o _get_memory_requirement
    \o <<" ","R","A","M",")","\n","2","."," ","T","r","y"," ","a"," ","s","m","a","l","l","e","r"," ","m","o","d","e","l",":"," ","U","s","e"," ",Backquote,"m","o","d","e","l","_","s","i","z","e","=","\"","5","6","0","m","\"",Backquote," ","f","o","r"," ","l","e","s","s"," ","m","e","m","o","r","y"," ","u","s","a","g","e","\n","3","."," ","E","n","a","b","l","e"," ","q","u","a","n","t","i","z","a","t","i","o","n"," ","i","n"," ","c","o","n","s","t","r","u","c","t","o","r",":"," ",Backquote,"u","s","e","_","q","u","a","n","t","i","z","a","t","i","o","n","=","T","r","u","e",Backquote,"\n","\n","*","*","Q","u","i","c","k"," ","a","n","s","w","e","r"," ","b","a","s","e","d"," ","o","n"," ","a","v","a","i","l","a","b","l","e"," ","i","n","f","o","r","m","a","t","i","o","n",":","*","*","\n","P","l","e","a","s","e"," ","c","o","n","s","u","l","t"," ","m","e","d","i","c","a","l"," ","g","u","i","d","e","l","i","n","e","s"," ","o","r"," ","a"," ","h","e","a","l","t","h","c","a","r","e"," ","p","r","o","f","e","s","s","i","o","n","a","l"," ","f","o","r"," ","a","c","c","u","r","a","t","e"," ","i","n","f","o","r","m","a","t","i","o","n",".","\n","\n","*","M","o","d","e","l",":"," ","B","L","O","O","M","-">>
    \o model_size
    \o <<" ","(","O","p","e","n","-","s","o","u","r","c","e",","," ","f","r","e","e",")","*">>

\* the texts generate returns when it did not generate
FailureResponses ==
    {EmptyPromptError, OutOfMemoryError}
    \cup {_generate_fallback_response(asked) : asked \in Prompts}

\* BLOOMClient._get_cache_key: the digest of prompt, model size,
\* temperature and max_tokens; one client has one key for each prompt
_get_cache_key(asked) == asked

\* BLOOMClient._load_from_cache: the stored response when caching is on,
\* the file exists and is less than 24 hours old; else None
_load_from_cache(files, key, enabled, hour) ==
    IF ~enabled THEN [none |-> TRUE]
    ELSE IF files[key] = NoEntry THEN [none |-> TRUE]
    ELSE IF hour - files[key].timestamp < CacheHours
         THEN [value |-> files[key].response]
         ELSE [none |-> TRUE]

\* BLOOMClient._save_to_cache: the file of the key is written anew
_save_to_cache(files, key, text, enabled, hour) ==
    IF ~enabled THEN files
    ELSE [files EXCEPT ![key] = [response |-> text, timestamp |-> hour]]

\* `if cached_response:` in generate
Truthy(loaded) == "value" \in DOMAIN loaded /\ loaded.value # <<>>

\* `if not prompt or not prompt.strip()`
IsBlank(asked) == asked = <<>> \/ Strip(asked) = <<>>

\* the except clauses of generate: what follows a raised attempt
after_error_retry_always(raised, message, turn, limit) ==
    "retry"
after_error(raised, message, turn, limit) ==
    IF raised = "RuntimeError"
    THEN IF Contains(Lower(message), <<"o","u","t"," ","o","f"," ","m","e","m","o","r","y">>) THEN "oom"
         ELSE IF turn = limit - 1 THEN "fallback"
         ELSE "retry"
    ELSE "fallback"

\* the client is made: with or without transformers and a loaded model,
\* with or without the cache
LlmInit ==
    /\ TriageRest /\ PipelineRest /\ RetrievalRest /\ HttpRest /\ FormatRest
    /\ CleanerRest /\ PageRest /\ HandlerRest
    /\ mode \in {"mock", "production"}
    /\ cache_enabled \in BOOLEAN
    /\ cache_files = [p \in Prompts |-> NoEntry]
    /\ clock = 0
    /\ lpc = "idle"
    /\ prompt = <<>>
    /\ retries = 2
    /\ tried = <<>>
    /\ llm_response = NoAnswer
    /\ hit = FALSE
    /\ before = NoEntry
    /\ failed_before = FALSE
    /\ cache_at_call = [p \in Prompts |-> NoEntry]
    /\ produced = [p \in Prompts |-> NoEntry]
    /\ failed = {}

\* the locals of a call of generate are gone once it has returned
CallOver ==
    /\ lpc' = "idle"
    /\ prompt' = <<>>
    /\ retries' = 2
    /\ tried' = <<>>
    /\ llm_response' = NoAnswer
    /\ hit' = FALSE
    /\ before' = NoEntry
    /\ failed_before' = FALSE
    /\ cache_at_call' = [p \in Prompts |-> NoEntry]

\* time passes between two calls
LlmTick ==
    /\ lpc \in {"idle", "returned"}
    /\ clock + 12 <= MaxLlmClock
    /\ clock' = clock + 12
    /\ CallOver
    /\ UNCHANGED <<mode, cache_enabled, cache_files, produced, failed>>
    /\ UNCHANGED <<otherVars, handlerVars>>

\* BLOOMClient.clear_cache
LlmClearCache ==
    /\ lpc \in {"idle", "returned"}
    /\ cache_files' = [p \in Prompts |-> NoEntry]
    /\ produced' = [p \in Prompts |-> NoEntry]
    /\ CallOver
    /\ UNCHANGED <<mode, cache_enabled, clock, failed>>
    /\ UNCHANGED <<otherVars, handlerVars>>

\* a caller invokes client.generate(prompt, max_retries)
CallGenerate ==
    /\ lpc \in {"idle", "returned"}
    /\ \E asked \in Prompts :
          /\ prompt' = asked
          /\ before' = produced[asked]
          /\ failed_before' = (asked \in failed)
    /\ \E n \in RetriesArgs : retries' = n
    /\ tried' = <<>>
    /\ llm_response' = NoAnswer
    /\ hit' = FALSE
    /\ cache_at_call' = cache_files
    /\ lpc' = "called"
    /\ UNCHANGED <<mode, cache_enabled, cache_files, clock, produced, failed>>
    /\ UNCHANGED <<otherVars, handlerVars>>

\* generate returns a text it generated, after saving it
ReturnGenerated(text) ==
    /\ llm_response' = [value |-> text]
    /\ cache_files' =
          IF cache_enabled
          THEN _save_to_cache(cache_files, _get_cache_key(prompt), text, cache_enabled, clock)
          ELSE cache_files
    /\ produced' = [produced EXCEPT ![prompt] = [response |-> text, timestamp |-> clock]]
    /\ failed' = failed \ {prompt}
    /\ lpc' = "returned"

\* generate returns a text told of a failure: nothing is saved
ReturnFailureCached(text) ==
    /\ llm_response' = [value |-> text]
    /\ cache_files' =
          _save_to_cache(cache_files, _get_cache_key(prompt), text, cache_enabled, clock)
    /\ produced' = produced
    /\ failed' = failed \cup {prompt}
    /\ lpc' = "returned"
ReturnFailure(text) ==
    /\ llm_response' = [value |-> text]
    /\ cache_files' = cache_files
    /\ produced' = produced
    /\ failed' = failed \cup {prompt}
    /\ lpc' = "returned"

\* generate up to the retry loop: the test of the prompt, the cache, the
\* mock mode
Generate ==
    /\ lpc = "called"
    /\ IF IsBlank(prompt)
       THEN ReturnFailure(EmptyPromptError) /\ UNCHANGED <<tried, hit>>
       ELSE \E cached_response \in
                  {_load_from_cache(cache_files, _get_cache_key(prompt), cache_enabled, clock)} :
            IF Truthy(cached_response)
            THEN /\ llm_response' = [value |-> cached_response.value]
                 /\ hit' = TRUE
                 /\ failed' = failed \ {prompt}
                 /\ lpc' = "returned"
                 /\ UNCHANGED <<cache_files, produced, tried>>
            ELSE IF mode = "mock"
            THEN /\ tried' = <<[raised |-> "none", text |-> _generate_mock_response(prompt)]>>
                 /\ ReturnGenerated(_generate_mock_response(prompt))
                 /\ UNCHANGED hit
            ELSE /\ lpc' = "attempting"
                 /\ UNCHANGED <<llm_response, cache_files, produced, failed, tried, hit>>
    /\ UNCHANGED <<mode, cache_enabled, clock, prompt, retries, before, failed_before,
                   cache_at_call>>
    /\ UNCHANGED <<otherVars, handlerVars>>

\* one turn of `for attempt in range(max_retries)`: the model generates or
\* raises; after the last turn the fallback is returned
AttemptGeneration ==
    /\ lpc = "attempting"
    /\ IF Len(tried) >= retries
       THEN ReturnFailure(_generate_fallback_response(prompt)) /\ UNCHANGED tried
       ELSE \E outcome \in ModelOutcomes :
               /\ tried' = Append(tried, outcome)
               /\ IF outcome.raised = "none"
                  THEN ReturnGenerated(Strip(outcome.text))
                  ELSE \E then \in {after_error(outcome.raised, outcome.text,
                                                Len(tried), retries)} :
                       IF then = "oom" THEN ReturnFailure(OutOfMemoryError)
                       ELSE IF then = "fallback"
                       THEN ReturnFailure(_generate_fallback_response(prompt))
                       ELSE /\ lpc' = "waiting"
                            /\ UNCHANGED <<llm_response, cache_files, produced, failed>>
    /\ UNCHANGED <<mode, cache_enabled, clock, prompt, retries, hit, before,
                   failed_before, cache_at_call>>
    /\ UNCHANGED <<otherVars, handlerVars>>

\* time.sleep(wait_time), then the next turn of the loop
WaitBeforeRetry ==
    /\ lpc = "waiting"
    /\ lpc' = "attempting"
    /\ UNCHANGED <<mode, cache_enabled, cache_files, clock, prompt, retries, tried, llm_response,
                   hit, before, failed_before, cache_at_call, produced, failed>>
    /\ UNCHANGED <<otherVars, handlerVars>>

LlmNext ==
    \/ LlmTick
    \/ LlmClearCache
    \/ CallGenerate
    \/ Generate
    \/ AttemptGeneration
    \/ WaitBeforeRetry

LlmSpec == LlmInit /\ [][LlmNext]_vars

\* a call of generate runs on to its return
LlmFairSpec ==
    /\ LlmSpec
    /\ WF_vars(Generate) /\ WF_vars(AttemptGeneration) /\ WF_vars(WaitBeforeRetry)

(***************************************************************************)
(* aya_sindel/handler.py: LLMHandler.process_question, batch_process, the  *)
(* statistics; aya_sindel/planning.py: PromptManager; the label list of    *)
(* elaazaouzi_fadwa/classifier.py.                                         *)
(***************************************************************************)
\* characters of the handler's texts that no string of TLA+ holds
CheckMarkButton == "U+2705"
CheckMark == "U+2713"
Bullet == "U+2022"
EAcute == "U+00E9"

\* classifier.py: the labels the classifier chooses from, character by
\* character, and the medical ones among them
label_texts == <<<<"m","e","d","i","c","a","l"," ","d","e","f","i","n","i","t","i","o","n"," ","q","u","e","s","t","i","o","n">>, <<"m","e","d","i","c","a","l"," ","r","e","a","s","o","n","i","n","g"," ","q","u","e","s","t","i","o","n">>, <<"m","e","d","i","c","a","l"," ","s","t","e","p","w","i","s","e"," ","p","r","o","c","e","d","u","r","e"," ","q","u","e","s","t","i","o","n">>, <<"m","e","d","i","c","a","l"," ","m","u","l","t","i","p","l","e"," ","c","h","o","i","c","e"," ","q","u","e","s","t","i","o","n">>, <<"n","o","n","-","m","e","d","i","c","a","l"," ","q","u","e","s","t","i","o","n">>>>
MedicalLabels == {label_texts[i] : i \in 1..4}

\* PromptManager.prompt_mapping
prompt_mapping ==
    (<<"m","e","d","i","c","a","l"," ","m","u","l","t","i","p","l","e"," ","c","h","o","i","c","e"," ","q","u","e","s","t","i","o","n">> :> "aya_sindel/prompts/qcm.txt")
    @@ (<<"m","e","d","i","c","a","l"," ","d","e","f","i","n","i","t","i","o","n"," ","q","u","e","s","t","i","o","n">> :> "aya_sindel/prompts/api_prompt.txt")
    @@ (<<"m","e","d","i","c","a","l"," ","r","e","a","s","o","n","i","n","g"," ","q","u","e","s","t","i","o","n">> :> "aya_sindel/prompts/api_prompt.txt")
    @@ (<<"m","e","d","i","c","a","l"," ","s","t","e","p","w","i","s","e"," ","p","r","o","d","c","e","d","u","r","e"," ","q","u","e","s","t","i","o","n">> :> "aya_sindel/prompts/stepwise.txt")

\* self.prompt_mapping.get(q_type.lower(), "dataset_only.txt")
template_file(q_type) ==
    IF Lower(q_type) \in DOMAIN prompt_mapping
    THEN prompt_mapping[Lower(q_type)]
    ELSE "dataset_only.txt"

\* what reading the template file does: the text is read, or the file is
\* not found and the built-in template serves, or open raises otherwise
ReadOutcomes == {"read", "FileNotFoundError", "PermissionError"}

\* PromptManager.build_prompt: the prompt made of the template of the
\* question type, or the exception of get_prompt_template
build_prompt(asked, q_type, read) ==
    IF read = "PermissionError"
    THEN [raised |-> "PermissionError", text |-> <<"[","E","r","r","n","o"," ","1","3","]"," ","P","e","r","m","i","s","s","i","o","n"," ","d","e","n","i","e","d">>]
    ELSE [value |-> [file |-> template_file(q_type),
                     builtin |-> (read = "FileNotFoundError"),
                     question |-> asked]]

\* what llm_client.generate(prompt) does for the handler: it returns a
\* text, or the digest of a prompt that utf-8 cannot encode raises
RawResponses == {<<" ","I","n","s","u","l","i","n"," ","l","o","w","e","r","s"," ","g","l","u","c","o","s","e","."," ">>, <<"\"","R","e","s","t",".","\"">>, <<"W","a","s","h"," ","h","a","n","d","s",".","\n","\n","D","r","y"," ","h","a","n","d","s",".">>}
GenerateOutcomes ==
    {[value |-> raw] : raw \in RawResponses}
    \cup {[raised |-> "UnicodeEncodeError", text |-> <<"s","u","r","r","o","g","a","t","e","s"," ","n","o","t"," ","a","l","l","o","w","e","d">>]}

\* response.split('\n')
RECURSIVE split_lines(_, _, _, _)
split_lines(text, i, current, found) ==
    IF i > Len(text) THEN Append(found, current)
    ELSE IF text[i] = "\n"
    THEN split_lines(text, i + 1, <<>>, Append(found, current))
    ELSE split_lines(text, i + 1, Append(current, text[i]), found)

\* the loop of _format_response over enumerate(lines, 1)
RECURSIVE step_lines(_, _)
step_lines(lines, i) ==
    IF i > Len(lines) THEN <<>>
    ELSE (IF Strip(lines[i]) # <<>>
          THEN <<<<"S","t","e","p"," ">> \o str(i) \o <<":", " ">> \o Strip(lines[i])>>
          ELSE <<>>)
         \o step_lines(lines, i + 1)

\* any(marker in response.lower() for marker in markers)
AnyMarker(text, markers) == \E marker \in markers : Contains(Lower(text), marker)

\* the cleanup of _format_response: strip(), then a pair of quotes is cut
unquoted(text) ==
    IF Len(text) > 0 /\ text[1] = "\"" /\ text[Len(text)] = "\""
    THEN SubSeq(text, 2, Len(text) - 1)
    ELSE text

\* the branch of _format_response the question type takes
format_branch(q_type) ==
    IF q_type = <<"m","e","d","i","c","a","l"," ","m","u","l","t","i","p","l","e"," ","c","h","o","i","c","e"," ","q","u","e","s","t","i","o","n">> THEN "multiple choice"
    ELSE IF q_type = <<"m","e","d","i","c","a","l"," ","s","t","e","p","w","i","s","e"," ","p","r","o","d","c","e","d","u","r","e"," ","q","u","e","s","t","i","o","n">> THEN "stepwise"
    ELSE "none"

\* LLMHandler._format_response
_format_response(raw, q_type) ==
    LET cleaned == unquoted(Strip(raw))
    IN  IF format_branch(q_type) = "multiple choice"
        THEN IF AnyMarker(cleaned, {<<"c","o","r","r","e","c","t",":">>, <<"a","n","s","w","e","r",":">>, <<CheckMarkButton>>, <<CheckMark>>})
             THEN cleaned
             ELSE <<CheckMarkButton," ","C","o","r","r","e","c","t"," ","a","n","s","w","e","r",":","\n">> \o cleaned
        ELSE IF format_branch(q_type) = "stepwise"
        THEN IF AnyMarker(cleaned, {<<"s","t","e","p">>, <<EAcute,"t","a","p","e">>, <<"1",".">>, <<Bullet>>})
             THEN cleaned
             ELSE join(<<"\n">>, step_lines(split_lines(cleaned, 1, <<>>, <<>>), 1), 1)
        ELSE cleaned

\* the key "default" of error_templates
Default == <<"d","e","f","a","u","l","t">>

\* the dictionary error_templates of _get_error_response
error_templates(asked, error) ==
    (<<"m","e","d","i","c","a","l"," ","m","u","l","t","i","p","l","e"," ","c","h","o","i","c","e"," ","q","u","e","s","t","i","o","n">> :>
          <<"I"," ","a","p","o","l","o","g","i","z","e",","," ","b","u","t"," ","I"," ","e","n","c","o","u","n","t","e","r","e","d"," ","a","n"," ","e","r","r","o","r"," ","w","h","i","l","e"," ","a","n","a","l","y","z","i","n","g"," ","t","h","i","s"," ","m","u","l","t","i","p","l","e"," ","c","h","o","i","c","e"," ","q","u","e","s","t","i","o","n",".","\n","\n","E","r","r","o","r",":"," ">> \o error \o <<"\n","\n","P","l","e","a","s","e"," ","t","r","y"," ","a","g","a","i","n"," ","o","r"," ","r","e","p","h","r","a","s","e"," ","y","o","u","r"," ","q","u","e","s","t","i","o","n",".">>)
    @@ (<<"m","e","d","i","c","a","l"," ","d","e","f","i","n","i","t","i","o","n"," ","q","u","e","s","t","i","o","n">> :>
          <<"I","'","m"," ","u","n","a","b","l","e"," ","t","o"," ","p","r","o","v","i","d","e"," ","a"," ","d","e","f","i","n","i","t","i","o","n"," ","a","t"," ","t","h","e"," ","m","o","m","e","n","t"," ","d","u","e"," ","t","o"," ","a"," ","t","e","c","h","n","i","c","a","l"," ","i","s","s","u","e",".","\n","\n","E","r","r","o","r",":"," ">> \o error \o <<"\n","\n","Y","o","u"," ","m","i","g","h","t"," ","t","r","y"," ","s","e","a","r","c","h","i","n","g"," ","m","e","d","i","c","a","l"," ","t","e","x","t","b","o","o","k","s"," ","o","r"," ","o","n","l","i","n","e"," ","r","e","s","o","u","r","c","e","s"," ","f","o","r"," ","i","n","f","o","r","m","a","t","i","o","n"," ","a","b","o","u","t",":"," ">> \o asked)
    @@ (<<"m","e","d","i","c","a","l"," ","r","e","a","s","o","n","i","n","g"," ","q","u","e","s","t","i","o","n">> :>
          <<"I","'","m"," ","h","a","v","i","n","g"," ","d","i","f","f","i","c","u","l","t","y"," ","a","n","a","l","y","z","i","n","g"," ","t","h","i","s"," ","c","l","i","n","i","c","a","l"," ","c","a","s","e"," ","r","i","g","h","t"," ","n","o","w",".","\n","\n","E","r","r","o","r",":"," ">> \o error \o <<"\n","\n","C","o","n","s","i","d","e","r"," ","c","o","n","s","u","l","t","i","n","g"," ","c","l","i","n","i","c","a","l"," ","g","u","i","d","e","l","i","n","e","s"," ","o","r"," ","s","p","e","a","k","i","n","g"," ","w","i","t","h"," ","a"," ","h","e","a","l","t","h","c","a","r","e"," ","p","r","o","f","e","s","s","i","o","n","a","l",".">>)
    @@ (<<"m","e","d","i","c","a","l"," ","s","t","e","p","w","i","s","e"," ","p","r","o","d","c","e","d","u","r","e"," ","q","u","e","s","t","i","o","n">> :>
          <<"I"," ","c","a","n","n","o","t"," ","p","r","o","v","i","d","e"," ","s","t","e","p","-","b","y","-","s","t","e","p"," ","i","n","s","t","r","u","c","t","i","o","n","s"," ","a","t"," ","t","h","i","s"," ","t","i","m","e"," ","d","u","e"," ","t","o"," ","a"," ","s","y","s","t","e","m"," ","e","r","r","o","r",".","\n","\n","E","r","r","o","r",":"," ">> \o error \o <<"\n","\n","F","o","r"," ","p","r","o","c","e","d","u","r","a","l"," ","g","u","i","d","a","n","c","e",","," ","p","l","e","a","s","e"," ","r","e","f","e","r"," ","t","o"," ","o","f","f","i","c","i","a","l"," ","m","e","d","i","c","a","l"," ","p","r","o","t","o","c","o","l","s",".">>)
    @@ (Default :>
          <<"I"," ","a","p","o","l","o","g","i","z","e",","," ","b","u","t"," ","I","'","m"," ","u","n","a","b","l","e"," ","t","o"," ","p","r","o","c","e","s","s"," ","y","o","u","r"," ","q","u","e","s","t","i","o","n"," ","a","t"," ","t","h","e"," ","m","o","m","e","n","t",".","\n","\n","T","e","c","h","n","i","c","a","l"," ","i","s","s","u","e",":"," ">> \o error \o <<"\n","\n","P","l","e","a","s","e"," ","t","r","y"," ","a","g","a","i","n"," ","l","a","t","e","r"," ","o","r"," ","c","o","n","s","u","l","t"," ","a","p","p","r","o","p","r","i","a","t","e"," ","m","e","d","i","c","a","l"," ","r","e","s","o","u","r","c","e","s",".">>)

\* LLMHandler._get_error_response
_get_error_response_default(asked, q_type, error) ==
    error_templates(asked, error)[Default]
_get_error_response(asked, q_type, error) ==
    IF q_type \in DOMAIN error_templates(asked, error)
    THEN error_templates(asked, error)[q_type]
    ELSE error_templates(asked, error)[Default]

\* the questions and the question types process_question is called with:
\* the labels of the classifier and the keys of the handler's dictionaries
Asked == {<<"H","o","w"," ","t","o"," ","t","a","k","e"," ","b","l","o","o","d"," ","p","r","e","s","s","u","r","e","?">>}
QuestionTypes == {label_texts[i] : i \in DOMAIN label_texts} \cup DOMAIN prompt_mapping

\* process_question calls counted in all
MaxQuestions == 2

\* length of the lists batch_process is given
MaxBatch == 2

\* self.stats[...] += 1 for the question type
count_total_only(counted, q_type) ==
    [counted EXCEPT !.total_questions = @ + 1]
count_question(counted, q_type) ==
    [total_questions |-> counted.total_questions + 1,
     by_type |-> [counted.by_type EXCEPT ![q_type] = @ + 1]]

\* the body of process_question after the statistics: the try block and
\* its except clause
process_question(asked, q_type, read, generated, loaded) ==
    LET built == build_prompt(asked, q_type, read)
        raised == IF Raised(built) THEN built
                  ELSE IF Raised(generated) THEN generated
                  ELSE IF ~loaded
                  THEN [raised |-> "AttributeError", text |-> <<"'","L","L","M","C","l","i","e","n","t","'"," ","o","b","j","e","c","t"," ","h","a","s"," ","n","o"," ","a","t","t","r","i","b","u","t","e"," ","'","m","o","d","e","l","'">>]
                  ELSE [raised |-> "none", text |-> <<>>]
    IN  IF raised.raised # "none"
        THEN [status |-> "error",
              answer |-> _get_error_response(asked, q_type, raised.text),
              question_type |-> q_type,
              file |-> IF Raised(built) THEN "none" ELSE built.value.file,
              branch |-> "none",
              raised |-> raised.raised,
              error |-> raised.text]
        ELSE [status |-> "success",
              answer |-> _format_response(generated.value, q_type),
              question_type |-> q_type,
              file |-> built.value.file,
              branch |-> format_branch(q_type),
              raised |-> "none",
              error |-> <<>>]

\* LLMHandler(): the statistics are empty; the client holds a loaded model
\* or runs in mock mode without the attribute model
HandlerInit ==
    /\ TriageRest /\ PipelineRest /\ RetrievalRest /\ HttpRest /\ FormatRest
    /\ CleanerRest /\ PageRest /\ LlmRest
    /\ has_model \in BOOLEAN
    /\ stats = [total_questions |-> 0, by_type |-> [qt \in QuestionTypes |-> 0]]
    /\ qpc = "idle"
    /\ queue = <<>>
    /\ handled = <<>>
    /\ executions = 0

\* a caller invokes handler.process_question(question, q_type)
CallHandlerProcessQuestion ==
    /\ qpc \in {"idle", "returned"}
    /\ executions < MaxQuestions
    /\ \E asked \in Asked, qt \in QuestionTypes :
          queue' = <<[question |-> asked, question_type |-> qt]>>
    /\ handled' = <<>>
    /\ qpc' = "running"
    /\ UNCHANGED <<has_model, stats, executions>>
    /\ UNCHANGED <<otherVars, llmVars>>

\* a caller invokes handler.batch_process(questions, question_types) with
\* lists of n and k items: zip pairs the two lists up to the shorter one
\* and reads no item beyond it
CallBatchProcess ==
    /\ qpc \in {"idle", "returned"}
    /\ \E n \in 0..MaxBatch, k \in 0..MaxBatch :
          /\ executions + Min(n, k) <= MaxQuestions
          /\ \E questions \in [1..Min(n, k) -> Asked],
                question_types \in [1..Min(n, k) -> QuestionTypes] :
                queue' = [i \in 1..Min(n, k) |->
                             [question |-> questions[i], question_type |-> question_types[i]]]
    /\ handled' = <<>>
    /\ qpc' = IF queue' = <<>> THEN "returned" ELSE "running"
    /\ UNCHANGED <<has_model, stats, executions>>
    /\ UNCHANGED <<otherVars, llmVars>>

\* one execution of process_question, for the single call or for the next
\* pair of the batch
ProcessQuestion ==
    /\ qpc = "running"
    /\ queue # <<>>
    /\ stats' = count_question(stats, Head(queue).question_type)
    /\ executions' = executions + 1
    /\ \E read \in ReadOutcomes, generated \in GenerateOutcomes :
          handled' = Append(handled,
                            process_question(Head(queue).question, Head(queue).question_type,
                                             read, generated, has_model))
    /\ queue' = Tail(queue)
    /\ qpc' = IF Tail(queue) = <<>> THEN "returned" ELSE "running"
    /\ UNCHANGED has_model
    /\ UNCHANGED <<otherVars, llmVars>>

HandlerNext ==
    \/ CallHandlerProcessQuestion
    \/ CallBatchProcess
    \/ ProcessQuestion

HandlerSpec == HandlerInit /\ [][HandlerNext]_vars

(***************************************************************************)
(* noussaiba_mdaghri/api_client.py: HTTPClient                             *)
(*                                                                         *)
(* requests_cache.install_cache replaces the class requests.Session by a   *)
(* caching one: a session made by requests.Session() before the call is an *)
(* ordinary session, one made after it reads and writes the cache.         *)
(* __init__ makes self.session first and installs the cache second.        *)
(***************************************************************************)
\* largest number of get calls made, and the latest time the clock is
\* moved to between two calls
MaxGets == 2
MaxClock == 7200

\* install_cache(expire_after=3600)
ExpireAfter == 3600
\* @retry(stop=stop_after_attempt(3), wait=wait_exponential(multiplier=1, min=2, max=10))
StopAfterAttempt == 3
WaitMultiplier == 1
WaitMin == 2
WaitMax == 10

\* what a network request meets: a response with a status (and a body that
\* is JSON or not), or an exception of requests
RetriedExceptions == {"Timeout", "ConnectionError"}
Upstream ==
    {[status |-> 200, json |-> j] : j \in BOOLEAN} \cup
    {[status |-> c, json |-> TRUE] : c \in {404, 500}} \cup
    {[exception |-> e] : e \in RetriedExceptions \cup {"TooManyRedirects"}}

\* the time passed between two get calls
Delays == {1800, 3600}

RECURSIVE Pow2(_)
Pow2(k) == IF k = 0 THEN 1 ELSE 2 * Pow2(k - 1)
Max(a, b) == IF a >= b THEN a ELSE b

\* tenacity wait_exponential: multiplier * 2^(attempt_number - 1), kept
\* between min and max
wait_exponential(attempt_number) ==
    Max(Max(0, WaitMin), Min(WaitMultiplier * Pow2(attempt_number - 1), WaitMax))

\* mutant: a cached entry never expires
IsFreshForever(cached, t) == "created" \in DOMAIN cached

\* the read-time test of the cache: the entry exists and has not expired
IsFresh(cached, t) ==
    /\ "created" \in DOMAIN cached
    /\ t < cached.created + ExpireAfter

\* whether self.session is a caching session
ReadsCache(s) == s = "cached"

\* mutant: reraise is not set, tenacity raises its RetryError
RetryErrorAfterStop(last) == "RetryError"

\* reraise=True: once the attempts are used up the last exception is raised
ReraiseAfterStop(last) == last

\* mutant: the body is returned as it is, JSON or not
JsonOrTextUnwrapped(body) == body

\* response.json(), or {"text": response.text} for a body that is not JSON
JsonOrText(body) == IF body.json THEN body ELSE [text |-> body]

NetworkRequests(outcomes) ==
    Cardinality({i \in DOMAIN outcomes : outcomes[i] # "cache"})

\* the value a caller builds HTTPClient with for max_retries; the client of
\* the module was built with the default, 3
MaxRetriesArgs == {0}

\* HTTPClient(): self.session = requests.Session(), then install_cache
NewHTTPClient ==
    /\ hpc \in {"idle", "done", "raised"}
    /\ \E n \in MaxRetriesArgs : max_retries' = n
    /\ session' = IF installed THEN "cached" ELSE "plain"
    /\ installed' = TRUE
    /\ UNCHANGED <<hpc, url, attempts, cache, now, returned, prev, clearedSince,
                   calledAt, gets, served>>
    /\ UNCHANGED <<triageVars, pipelineVars, retrievalVars, formatVars, cleanerVars, pageVars, llmVars, handlerVars>>

\* time passes between two calls
Tick ==
    /\ hpc \in {"idle", "done", "raised"}
    /\ \E d \in Delays :
          /\ now + d <= MaxClock
          /\ now' = now + d
    /\ UNCHANGED <<installed, session, hpc, url, attempts, cache, returned, prev,
                   clearedSince, calledAt, gets, served, max_retries>>
    /\ UNCHANGED <<triageVars, pipelineVars, retrievalVars, formatVars, cleanerVars, pageVars, llmVars, handlerVars>>

\* http_client.clear_cache(): requests_cache.clear()
ClearCache ==
    /\ hpc \in {"idle", "done", "raised"}
    /\ cache' = [u \in Urls |-> NoEntry]
    /\ clearedSince' = TRUE
    /\ UNCHANGED <<installed, session, hpc, url, attempts, now, returned, prev,
                   calledAt, gets, served, max_retries>>
    /\ UNCHANGED <<triageVars, pipelineVars, retrievalVars, formatVars, cleanerVars, pageVars, llmVars, handlerVars>>

\* a caller invokes http_client.get(url, params)
CallGet ==
    /\ hpc \in {"idle", "done", "raised"}
    /\ gets < MaxGets
    /\ gets' = gets + 1
    /\ prev' = IF hpc = "idle" THEN NoCall
               ELSE [url |-> url, ok |-> hpc = "done", at |-> calledAt,
                     requests |-> NetworkRequests(attempts),
                     stored |-> "created" \in DOMAIN cache[url],
                     cleared |-> clearedSince]
    /\ \E u \in Urls : url' = u
    /\ attempts' = <<>>
    /\ returned' = NoReturn
    /\ served' = NoReturn
    /\ clearedSince' = FALSE
    /\ calledAt' = now
    /\ hpc' = "attempt"
    /\ UNCHANGED <<installed, session, cache, now, max_retries>>
    /\ UNCHANGED <<triageVars, pipelineVars, retrievalVars, formatVars, cleanerVars, pageVars, llmVars, handlerVars>>

\* what an attempt that went to the network ends in: the exception of
\* self.session.get, the HTTPError of raise_for_status() for a status from
\* 400 on, or a response that is returned
Ending(met) ==
    IF "exception" \in DOMAIN met THEN met.exception
    ELSE IF met.status >= 400 THEN "HTTPError"
    ELSE "response"

\* mutant: HTTP status errors are retried as well
ShouldRetryStatusToo(exception) == exception \in RetriedExceptions \cup {"HTTPError"}

\* retry=retry_if_exception_type((Timeout, ConnectionError))
ShouldRetry(exception) == exception \in RetriedExceptions

\* one attempt of the body of get: self.session.get, raise_for_status,
\* response.json(); the except clause re-raises, tenacity retries on Timeout
\* and ConnectionError while attempts remain
Attempt ==
    /\ hpc = "attempt"
    /\ IF ReadsCache(session) /\ IsFresh(cache[url], now)
       THEN \* the caching session answers from the cache
            /\ attempts' = Append(attempts, "cache")
            /\ served' = cache[url].body
            /\ returned' = [value |-> JsonOrText(cache[url].body), from_cache |-> TRUE]
            /\ hpc' = "done"
            /\ UNCHANGED cache
       ELSE \E met \in Upstream :
               IF Ending(met) # "response"
               THEN /\ attempts' = Append(attempts, Ending(met))
                    /\ UNCHANGED <<cache, served>>
                    /\ IF ShouldRetry(Ending(met))
                       THEN IF Len(attempts') >= StopAfterAttempt
                            THEN /\ returned' = [raised |-> ReraiseAfterStop(Ending(met))]
                                 /\ hpc' = "raised"
                            ELSE /\ UNCHANGED returned
                                 /\ hpc' = "wait"
                       ELSE /\ returned' = [raised |-> Ending(met)]
                            /\ hpc' = "raised"
               ELSE \E body \in {[url |-> url, at |-> now, json |-> met.json]} :
                    /\ attempts' = Append(attempts, "response")
                    /\ served' = body
                    /\ returned' = [value |-> JsonOrText(body), from_cache |-> FALSE]
                    /\ hpc' = "done"
                    /\ cache' = IF ReadsCache(session)
                                THEN [cache EXCEPT ![url] = [created |-> now, body |-> body]]
                                ELSE cache
    /\ UNCHANGED <<installed, session, url, now, prev, clearedSince, calledAt, gets,
                   max_retries>>
    /\ UNCHANGED <<triageVars, pipelineVars, retrievalVars, formatVars, cleanerVars, pageVars, llmVars, handlerVars>>

\* tenacity sleeps before the next attempt
Wait ==
    /\ hpc = "wait"
    /\ now' = now + wait_exponential(Len(attempts))
    /\ hpc' = "attempt"
    /\ UNCHANGED <<installed, session, url, attempts, cache, returned, prev,
                   clearedSince, calledAt, gets, served, max_retries>>
    /\ UNCHANGED <<triageVars, pipelineVars, retrievalVars, formatVars, cleanerVars, pageVars, llmVars, handlerVars>>

HttpNext ==
    \/ NewHTTPClient
    \/ Tick
    \/ ClearCache
    \/ CallGet
    \/ Attempt
    \/ Wait

HttpSpec == Init /\ [][HttpNext]_vars

(***************************************************************************)
(* Properties of the triage engine (under Spec).                           *)
(***************************************************************************)
Triaging == entry = "classify_question"

\* the question has at least 3 characters once trimmed
LongEnough(q) == Len(Strip(q)) >= 3

\* the question holds a denylist phrase, whatever the case of its letters
HasDeniedPhrase(q) ==
    \E low \in {Lower(q)} :
        \E i \in DOMAIN dangerous_keywords : Contains(low, dangerous_keywords[i])

RefusalPlanOfSpec ==
    [domain |-> "medical", intent |-> "dangerous_or_sensitive",
     confidence |-> 1000000, risk_level |-> "high",
     needs_external_data |-> FALSE, llm_mode |-> "refusal"]

\* C1: a question that passes validation and holds a denylist phrase (in any
\* case) never gets past the safety screen, is returned the refusal plan
\* {medical, dangerous_or_sensitive, 1.0, high, no external data, refusal},
\* and that is the plan for every label and score the classifier could give.
C1_SafetyKeywordRefused ==
    (Triaging /\ LongEnough(question) /\ HasDeniedPhrase(question)) =>
        /\ pc \in {"validate", "safety", "done"}
        /\ pc = "done" => plan = RefusalPlanOfSpec
        /\ \A a \in OracleAnswers : classify_question(question, a) = RefusalPlanOfSpec

\* C1 witness: an upper-case spelling of a denylist phrase was refused
C1_Witness ==
    /\ Triaging /\ pc = "done"
    /\ HasDeniedPhrase(question)
    /\ ~(\E i \in DOMAIN dangerous_keywords : Contains(question, dangerous_keywords[i]))
    /\ plan = RefusalPlanOfSpec

IsPrefix(s, t) == Len(s) <= Len(t) /\ SubSeq(t, 1, Len(s)) = s
NotPreprocess(x) == x # "preprocess"
StepOrder == <<"validate", "safety", "classify", "confidence", "plan">>

\* C2: the steps of classify_question run in the order validate, safety
\* screen, classify, confidence, plan, none skipped; a call returns only
\* after step 1, after step 2 or after step 5; and for an invalid or
\* denylisted question the classifier is never called and the returned plan
\* is one of the two fixed plans, with no classifier output in it.
C2_StrictOrderShortCircuit ==
    Triaging =>
        /\ IsPrefix(SelectSeq(steps, NotPreprocess), StepOrder)
        /\ pc = "done" =>
              SelectSeq(steps, NotPreprocess) \in
                  {SubSeq(StepOrder, 1, 1), SubSeq(StepOrder, 1, 2), StepOrder}
        /\ (~LongEnough(question) \/ HasDeniedPhrase(question)) =>
              /\ classifierCalls = 0
              /\ classification = NoClassification
              /\ confidence = "none"
              /\ pc = "done" =>
                    plan = IF LongEnough(question) THEN DangerPlan ELSE InvalidPlan

\* C2 witness: a denylisted question was returned after step 2, a classifier
\* never having been called
C2_Witness ==
    /\ Triaging /\ pc = "done"
    /\ HasDeniedPhrase(question)
    /\ steps = <<"validate", "safety">>
    /\ classifierCalls = 0

Planned ==
    /\ pc = "done"
    /\ entry \in {"classify_question", "create_plan"}
    /\ classification # NoClassification

C5_LowAlwaysRefusal ==
    (Planned /\ confidence = "low") => plan.llm_mode = "refusal"

\* C5 amended: at confidence low the plan is a refusal for every label but
\* the non-medical one, the definition label included.
C5_LowMedicalRefusal ==
    (Planned /\ confidence = "low" /\ classification.label # "non-medical question") =>
        plan.llm_mode = "refusal"

\* C5 witness: a definition question of low confidence was refused by the
\* whole triage call
C5_Witness ==
    /\ Planned /\ Triaging
    /\ classification.label = "medical definition question"
    /\ classification.score < 400000
    /\ confidence = "low"
    /\ plan.llm_mode = "refusal"

CautiousLabels == {"medical reasoning question",
                   "medical stepwise procedure question",
                   "medical multiple choice question"}

ReasoningCall ==
    /\ entry = "create_plan" /\ pc = "done" /\ confidence = "high"
    /\ classification = [label |-> "medical reasoning question", score |-> 800000]
NonMedicalCall ==
    /\ entry = "create_plan" /\ pc = "done" /\ confidence = "high"
    /\ classification = [label |-> "non-medical question", score |-> 850000]

C8_DefinitionDirect ==
    (Triaging /\ pc = "done"
        /\ classification.label = "medical definition question"
        /\ classification.score >= 400000) =>
        plan = [domain |-> "medical", intent |-> "medical_definition",
                confidence |-> classification.score, risk_level |-> "low",
                needs_external_data |-> TRUE, llm_mode |-> "direct"]

\* C8 witness: a definition answer of score exactly 0.40 was planned direct
C8_Witness ==
    /\ Triaging /\ pc = "done"
    /\ LongEnough(question) /\ ~HasDeniedPhrase(question)
    /\ classification = [label |-> "medical definition question", score |-> 400000]
    /\ plan.llm_mode = "direct"
    /\ plan.confidence = 400000

Rank(level) == CASE level = "low" -> 0 [] level = "medium" -> 1 [] level = "high" -> 2

\* the (score, level) pairs compute_confidence has produced: its direct
\* calls, and the call made inside classify_question
ConfidencePairs ==
    {confCalls[i] : i \in DOMAIN confCalls} \cup
    (IF Triaging /\ pc \in {"plan", "done"} /\ classification # NoClassification
     THEN {[score |-> classification.score, level |-> confidence]}
     ELSE {})

\* C9: compute_confidence gives high from 0.75 on, medium from 0.40 to below
\* 0.75, low below 0.40 (0.75 -> high, 0.749999 -> medium, 0.40 -> medium,
\* 0.399999 -> low), and of two calls the one with the larger score never
\* gets the lower level.
C9_ConfidenceThresholds ==
    /\ \A c \in ConfidencePairs :
          /\ c.score >= 750000 => c.level = "high"
          /\ (400000 <= c.score /\ c.score < 750000) => c.level = "medium"
          /\ c.score < 400000 => c.level = "low"
          /\ c.score = 750000 => c.level = "high"
          /\ c.score = 749999 => c.level = "medium"
          /\ c.score = 400000 => c.level = "medium"
          /\ c.score = 399999 => c.level = "low"
    /\ \A c, d \in ConfidencePairs :
          c.score <= d.score => Rank(c.level) <= Rank(d.level)

\* C9 witness: two calls in a row on either side of the 0.75 boundary
C9_Witness ==
    confCalls = << [score |-> 749999, level |-> "medium"],
                   [score |-> 750000, level |-> "high"] >>

\* C10: a question that is empty, blank or shorter than 3 characters once
\* trimmed is returned {invalid, risk low, refusal, no external data} right
\* after validation: the dict of validate_input has no risk_level (the
\* keyword scan was not reached), the safety screen and the classifier are
\* not reached.
C10_InvalidShortCircuit ==
    (Triaging /\ pc # "validate" /\ ~LongEnough(question)) =>
        /\ pc = "done"
        /\ steps = <<"validate">>
        /\ validation.valid = FALSE
        /\ "risk_level" \notin DOMAIN validation
        /\ classifierCalls = 0
        /\ plan.domain = "invalid"
        /\ plan.risk_level = "low"
        /\ plan.llm_mode = "refusal"
        /\ plan.needs_external_data = FALSE

\* C10 witness: a padded two-character question was returned as invalid
C10_Witness ==
    /\ Triaging /\ pc = "done"
    /\ Len(question) >= 3 /\ Len(Strip(question)) = 2
    /\ plan.domain = "invalid"

(***************************************************************************)
(* Error handling of the triage entry points (under Spec).                 *)
(***************************************************************************)
EntryPoints == {"classify_question", "triage_pipeline"}

\* the call of an entry point has ended, by a return or by an exception
Ended == entry \in EntryPoints /\ pc \in {"done", "raised"}

\* C11: at every triage entry point (classify_question, triage_pipeline) a
\* validation or safety short-circuit is a returned plan, never an
\* exception: an invalid input ends with a plan of domain invalid, a
\* denylisted input with the refusal plan, and neither call raises.
C11_ShortCircuitIsPlan ==
    (Ended /\ (~LongEnough(question) \/ HasDeniedPhrase(question))) =>
        /\ pc = "done"
        /\ ~LongEnough(question) => plan.domain = "invalid"
        /\ (LongEnough(question) /\ HasDeniedPhrase(question)) =>
              plan = RefusalPlanOfSpec

\* the question passed validation and the safety screen
PassedScreens == LongEnough(question) /\ ~HasDeniedPhrase(question)

\* C12: when the classifier raises for a question that passed validation
\* and the safety screen, classify_question ends by that exception: no plan
\* is returned and no label, level or plan is made up; a plan returned past
\* the safety screen always comes from an answer of the classifier.
C12_ClassifierFailurePropagates ==
    Triaging =>
        /\ pc = "raised" =>
              /\ PassedScreens
              /\ classifierCalls = 1
              /\ classification = NoClassification
              /\ confidence = "none"
              /\ plan = NoPlan
        /\ (pc = "done" /\ PassedScreens) =>
              /\ classification # NoClassification
              /\ classification.label \in labels
              /\ plan = create_plan(classification, confidence)
    
\* C12 witness: the classifier raised inside classify_question and the call
\* ended without a plan
C12_Witness ==
    /\ Triaging /\ pc = "raised"
    /\ steps[Len(steps)] = "classify"
    /\ plan = NoPlan

(***************************************************************************)
(* Properties of the retrieval layer (under RetrievalSpec).                *)
(***************************************************************************)
Adapters == {"Wikipedia", "OpenFDA"}
OpsOf(adapter) == IF adapter = "Wikipedia" THEN {"search"}
                  ELSE {"search_drugs", "search_adverse_effects"}

\* the adapter calls made so far in this retrieval
CallsOf(adapter) == {i \in DOMAIN fetched : fetched[i].op \in OpsOf(adapter)}

\* the HTTP call of an adapter call failed, or its body was malformed
FailedGet(got) == Raised(got) \/ "null" \in DOMAIN got

AdapterFailed(adapter) == \E i \in CallsOf(adapter) : FailedGet(fetched[i].got)
\* every call of the adapter got a list of items and gave at least a result
AdapterSucceeded(adapter) ==
    /\ CallsOf(adapter) # {}
    /\ \A i \in CallsOf(adapter) :
          /\ "items" \in DOMAIN fetched[i].got
          /\ fetched[i].gave.value # <<>>

\* the results the adapter calls of this retrieval gave, in call order
RECURSIVE GivenFrom(_)
GivenFrom(i) ==
    IF i > Len(fetched) THEN <<>>
    ELSE (IF Raised(fetched[i].gave) THEN <<>> ELSE fetched[i].gave.value)
         \o GivenFrom(i + 1)

InEnvelope(r) == \E j \in DOMAIN response.results : response.results[j] = r

SearchApisReturned == rentry = "search_apis" /\ rpc = "done"

\* C13: when one adapter failed and the other succeeded, the envelope
\* search_apis returns holds the results of the one that succeeded, has
\* success = false and exactly one error string, which names the failed one.
C13_PartialFailureRecorded ==
    SearchApisReturned =>
        \A a \in Adapters, b \in Adapters :
            (a # b /\ AdapterFailed(a) /\ AdapterSucceeded(b)) =>
                /\ \A i \in CallsOf(b) :
                      \A k \in DOMAIN fetched[i].gave.value :
                          InEnvelope(fetched[i].gave.value[k])
                /\ response.success = FALSE
                /\ Len(response.errors) = 1
                /\ response.errors[1].source = a

\* C14: search_apis and search_specific never raise; every source due for
\* the call is queried whatever happened to the sources before it; every
\* result a source call gave is in the envelope, in call order; an error is
\* a "<source> error: <message>" string; and when the OpenFDA block raised
\* (the logging line of search_apis after an empty drug search) exactly
\* that is recorded while the Wikipedia results stay in the envelope.
C14_AdaptersIsolated ==
    /\ rpc \in {"idle", "wikipedia", "drugs", "adverse", "log", "done"}
    /\ rentry \in {"search_apis", "search_specific"} =>
          /\ response.results = GivenFrom(1)
          /\ \A j \in DOMAIN response.errors :
                /\ response.errors[j].source \in Adapters
                /\ response.errors[j].text = " error: "
          /\ rpc = "done" =>
                /\ (CallsOf("Wikipedia") # {}) <=>
                      (rentry = "search_apis" \/ rsource \in {"wikipedia", "all"})
                /\ (\E i \in DOMAIN fetched : fetched[i].op = "search_drugs") <=>
                      OpenFDAQueried
                /\ (IsBound(drug_results) /\ ~IsBound(adverse_results)) =>
                      response.errors = <<ErrorMsg("OpenFDA", "UnboundLocalError")>>

\* C14 witness: search_apis returned Wikipedia results together with the
\* error of the OpenFDA block that raised after them
C14_Witness ==
    /\ SearchApisReturned
    /\ IsBound(wiki_results) /\ wiki_results.value # <<>>
    /\ response.results = wiki_results.value
    /\ response.errors = <<ErrorMsg("OpenFDA", "UnboundLocalError")>>

\* C15: when every HTTP call of the retrieval failed, search_apis returns
\* an envelope with no results, at least one error and success = false,
\* whether the question looks medical or not.
C15_AllFailedHasErrors ==
    (SearchApisReturned /\ \A i \in DOMAIN fetched : Raised(fetched[i].got)) =>
        /\ response.results = <<>>
        /\ response.errors # <<>>
        /\ response.success = FALSE

\* C16: on every APIResponse success is false exactly when errors is not
\* empty; add_result appends one result and leaves success and errors as
\* they were; add_error appends one error and leaves the results as they
\* were.
C16_SuccessIffNoErrors ==
    /\ [](response # NoResponse =>
             (response.success = FALSE <=> response.errors # <<>>))
    /\ [][rentry = "APIResponse" =>
             \/ /\ \E r \in SomeResults : response'.results = Append(response.results, r)
                /\ response'.success = response.success
                /\ response'.errors = response.errors
             \/ /\ \E e \in SomeErrors : response'.errors = Append(response.errors, e)
                /\ response'.results = response.results
                /\ response'.success = FALSE]_vars

\* C16 witness: an envelope that got a result, then an error, then a result
C16_Witness ==
    /\ rentry = "APIResponse"
    /\ Len(response.results) = 2
    /\ Len(response.errors) = 1
    /\ response.success = FALSE

\* C17: WikipediaClient.search, search_drugs and search_adverse_effects
\* never raise: each call gives a sequence, the empty one whenever its HTTP
\* call raised (timeout, connection error, HTTP status error) or the body
\* lacks the expected key or holds null under it; items that cannot be
\* parsed are left out.
C17_AdaptersNeverRaise ==
    \A i \in DOMAIN fetched :
        /\ ~Raised(fetched[i].gave)
        /\ (FailedGet(fetched[i].got) \/ "missing" \in DOMAIN fetched[i].got) =>
              fetched[i].gave.value = <<>>
        /\ "items" \in DOMAIN fetched[i].got =>
              Len(fetched[i].gave.value) <= Len(fetched[i].got.items)

\* C17 witness: the three adapter operations were called, the HTTP call of
\* each failed in a different way, and each gave the empty sequence
C17_Witness ==
    /\ rentry = "search_specific" /\ rpc = "done"
    /\ Len(fetched) = 3
    /\ fetched[1].got = [raised |-> "Timeout"]
    /\ fetched[2].got = [raised |-> "ConnectionError"]
    /\ fetched[3].got = [raised |-> "HTTPError"]
    /\ \A i \in 1..3 : fetched[i].gave = [value |-> <<>>]
    /\ response.errors = <<>>

(***************************************************************************)
(* Properties of the HTTP client (under HttpSpec).                         *)
(***************************************************************************)
GetEnded == hpc \in {"done", "raised"}

\* the call before the current one was for the same (url, params), needed
\* one network request and returned its 2xx response
SameAsPrevious ==
    /\ "url" \in DOMAIN prev
    /\ prev.url = url
    /\ prev.ok
    /\ prev.requests = 1

\* C18: of two sequential get calls with the same URL and params, the first
\* answered 2xx and the second made less than an hour later with no
\* clear_cache in between, the second issues no network request: it is
\* served from the cache.
C18_SecondCallFromCache ==
    (GetEnded /\ SameAsPrevious /\ ~prev.cleared
              /\ calledAt < prev.at + ExpireAfter) =>
        /\ NetworkRequests(attempts) = 0
        /\ hpc = "done"
        /\ returned.from_cache

\* the response body inside a value get returned
BodyOf(value) == IF "text" \in DOMAIN value THEN value.text ELSE value

C20_AtMostThreeAttempts ==
    /\ Len(attempts) <= 3
    /\ \A i \in 1..(Len(attempts) - 1) : attempts[i] \in {"Timeout", "ConnectionError"}
    /\ hpc = "wait" => attempts[Len(attempts)] \in {"Timeout", "ConnectionError"}
    /\ hpc = "raised" =>
          /\ returned.raised = attempts[Len(attempts)]
          /\ returned.raised # "RetryError"
          /\ Len(attempts) < 3 => returned.raised \notin {"Timeout", "ConnectionError"}

\* C20 witness: three attempts failed and the call raised the ConnectionError
\* of the third
C20_Witness ==
    /\ hpc = "raised"
    /\ attempts = <<"Timeout", "Timeout", "ConnectionError">>
    /\ returned = [raised |-> "ConnectionError"]

\* the adapter operations due in a search_apis call, as far as it has got
DueOps ==
    {"search"}
    \cup (IF _looks_medical(rquestion) THEN {"search_drugs"} ELSE {})
    \cup (IF IsBound(drug_results) /\ drug_results.value # <<>>
          THEN {"search_adverse_effects"} ELSE {})

\* C24: when search_apis returns the envelope no adapter call is in
\* progress, every adapter call due for the question has been made and has
\* returned, also when an earlier one gave results, the envelope holds what
\* they gave, and the envelope does not change after the return.
C24_EnvelopeAfterAllCalls ==
    /\ [](SearchApisReturned =>
             /\ calling = NoCalling
             /\ {fetched[i].op : i \in DOMAIN fetched} = DueOps
             /\ response.results = GivenFrom(1))
    /\ [][SearchApisReturned => response' = response]_vars

\* C24 witness: search_apis returned after three adapter calls although
\* the first one had already given a result
C24_Witness ==
    /\ SearchApisReturned
    /\ Len(fetched) = 3
    /\ fetched[1].gave.value # <<>>
    /\ Len(response.results) > Len(fetched[1].gave.value)

\* C25: while the Wikipedia call of search_apis is in progress for a
\* question that looks medical, the drug search of OpenFDA can start.
C25_SlowSourceDoesNotStall ==
    (rentry = "search_apis" /\ calling.op = "search" /\ _looks_medical(rquestion)) =>
        ENABLED (CallAdapter /\ calling'.op = "search_drugs")

\* C29: when no adapter call of a search_apis call raised, the envelope it
\* returns has no errors and success = true, also when the drug search gave
\* the empty list for a question that looks medical.
C29_ErrorsOnlyWhenRaised ==
    (SearchApisReturned /\ \A i \in DOMAIN fetched : ~Raised(fetched[i].gave)) =>
        /\ response.errors = <<>>
        /\ response.success = TRUE

\* the lower-cased question holds a keyword of the clinical vocabulary
HoldsClinicalKeyword(q) ==
    \E low \in {[i \in 1..Len(q) |-> LowerChar(q[i])]} :
        \E n \in DOMAIN medical_keywords, at \in 1..Len(q) :
            /\ at + Len(medical_keywords[n]) - 1 <= Len(q)
            /\ \A j \in 1..Len(medical_keywords[n]) :
                  low[at + j - 1] = medical_keywords[n][j]

\* C30: in search_apis the first adapter call is the Wikipedia search; the
\* drug search is called only for a question that holds a clinical keyword
\* once lower-cased, and then second; the adverse-effects search only
\* after a drug search that gave at least one result, asking for at most 1
\* result; for a question without keyword only Wikipedia is called.
C30_SourcesByKeyword ==
    rentry = "search_apis" =>
        \E holds \in {HoldsClinicalKeyword(rquestion)} :
            /\ (fetched = <<>> /\ calling # NoCalling) => calling.op = "search"
            /\ fetched # <<>> => fetched[1].op = "search"
            /\ calling.op = "search_drugs" => holds /\ Len(fetched) = 1
            /\ calling.op = "search_adverse_effects" =>
                  /\ calling.n <= 1
                  /\ Len(fetched) = 2
                  /\ fetched[2].op = "search_drugs" /\ fetched[2].gave.value # <<>>
            /\ \A i \in DOMAIN fetched :
                  /\ fetched[i].op = "search_drugs" => holds /\ i = 2
                  /\ fetched[i].op = "search_adverse_effects" =>
                        /\ i = 3
                        /\ fetched[i].n <= 1
                        /\ fetched[2].op = "search_drugs" /\ fetched[2].gave.value # <<>>
            /\ ~holds =>
                  /\ calling.op \in {"none", "search"}
                  /\ \A i \in DOMAIN fetched : fetched[i].op = "search"

\* C30 witness: for the question "CANCER" search_apis called Wikipedia, the
\* drug search, which gave a result, and the adverse-effects search for 1
C30_Witness ==
    /\ SearchApisReturned
    /\ rquestion = <<"C","A","N","C","E","R">>
    /\ Len(fetched) = 3
    /\ fetched[2].gave.value # <<>>
    /\ fetched[3].op = "search_adverse_effects" /\ fetched[3].n = 1

\* C26: format_for_llm never raises (its search_apis call always comes to
\* its return), and when the envelope of that call has no results, also
\* when every source failed, it returns "Aucune information externe trouvée pour: " followed by the
\* question.
C26_NoInformationMessage ==
    /\ fpc \in {"idle", "searching", "done"}
    /\ fpc = "searching" => rpc \in {"wikipedia", "drugs", "adverse", "log", "done"}
    /\ (fpc = "done" /\ response.results = <<>>) =>
          formatted = <<"A","u","c","u","n","e"," ","i","n","f","o","r","m","a","t","i","o","n"," ","e","x","t","e","r","n","e"," ","t","r","o","u","v","é","e"," ","p","o","u","r",":"," ">>
                      \o rquestion

\* C26 witness: every HTTP call of the retrieval failed and format_for_llm
\* returned the message for the question "aspirin"
C26_Witness ==
    /\ fpc = "done"
    /\ Len(fetched) = 2
    /\ \A i \in DOMAIN fetched : Raised(fetched[i].got)
    /\ formatted = <<"A","u","c","u","n","e"," ","i","n","f","o","r","m","a","t","i","o","n"," ","e","x","t","e","r","n","e"," ","t","r","o","u","v","é","e"," ","p","o","u","r",":"," ">>
                   \o <<"a","s","p","i","r","i","n">>

\* the sources of the results of the envelope, each at the place where it
\* is first seen
SourcesSeen == {response.results[i].source : i \in DOMAIN response.results}
FirstSeen(s) ==
    CHOOSE i \in DOMAIN response.results :
        /\ response.results[i].source = s
        /\ \A j \in 1..(i - 1) : response.results[j].source # s
SectionOrder ==
    [k \in 1..Cardinality(SourcesSeen) |->
        CHOOSE s \in SourcesSeen :
            Cardinality({o \in SourcesSeen : FirstSeen(o) < FirstSeen(s)}) = k - 1]

\* the results of a source that are listed: the first max_results_per_source
\* of them, in the order of the envelope
Listed(s) ==
    LET FromS(r) == r.source = s
        own == SelectSeq(response.results, FromS)
    IN  SubSeq(own, 1, Min(Len(own), max_results_per_source))

\* the preview of a content: the content without blank lines and outer
\* white space when that has at most 200 characters, else its first 200
\* characters and "..."
ClaimedPreview(text) ==
    CHOOSE preview \in {IF Len(whole) <= 200 THEN whole
                        ELSE SubSeq([i \in 1..203 |-> IF i <= 200 THEN whole[i] ELSE "."],
                                    1, 203) :
                            whole \in {stripped_content(text)}} : TRUE

RECURSIVE ClaimedEntries(_, _)
ClaimedEntries(listed, i) ==
    IF i > Len(listed) THEN <<>>
    ELSE str(i) \o <<".", " ">> \o title(listed[i]) \o <<"\n", " ", " ", " ">>
         \o ClaimedPreview(content(listed[i])) \o <<"\n", "\n">>
         \o ClaimedEntries(listed, i + 1)

RECURSIVE ClaimedSections(_)
ClaimedSections(k) ==
    IF k > Len(SectionOrder) THEN <<>>
    ELSE <<"=", "=", "=", " ">> \o Upper(SourceText(SectionOrder[k]))
         \o <<" ", "=", "=", "=", "\n">>
         \o ClaimedEntries(Listed(SectionOrder[k]), 1)
         \o ClaimedSections(k + 1)

\* C27: for an envelope with results format_for_llm returns a header that
\* names the question, then one section for each distinct source of the
\* results, in the order in which the sources are first seen, each section
\* listing the first max_results_per_source results of its source in
\* envelope order, each with its title and a preview of its content cut to
\* 200 characters followed by "...".
C27_SectionsPerSource ==
    (fpc = "done" /\ response.results # <<>>) =>
        formatted = <<"I","N","F","O","R","M","A","T","I","O","N","S"," ","E","X","T","E","R","N","E","S"," ","P","O","U","R",":"," ","'">>
                    \o rquestion \o <<"'", "\n", "\n">> \o ClaimedSections(1)

\* C27 witness: the envelope holds results of both sources, Wikipedia has
\* more results than are listed and its first content is longer than 200
\* characters
C27_Witness ==
    /\ fpc = "done"
    /\ SourcesSeen = {"wikipedia", "openfda"}
    /\ max_results_per_source = 1
    /\ Len(wiki_results.value) = 2
    /\ wiki_results.value[1].item = 1
    /\ Len(content(wiki_results.value[1])) > 200
    /\ Len(formatted) > 203

\* C28: the text clean_html returns has at most max_length characters.
C28_CleanHtmlBounded ==
    cpc = "returned" => Len(clean_text) <= max_length

\* C21: an attempt answered with a 4xx or 5xx status is the last of its
\* call: get raises the HTTP status error, returns no value, and when that
\* answer came at the first attempt the call issued exactly one request.
C21_StatusErrorNotRetried ==
    /\ \A i \in DOMAIN attempts :
          attempts[i] = "HTTPError" =>
              /\ i = Len(attempts)
              /\ hpc = "raised"
              /\ returned = [raised |-> "HTTPError"]
    /\ (attempts # <<>> /\ attempts[1] = "HTTPError") =>
          NetworkRequests(attempts) = 1

\* C21 witness: a call answered 4xx/5xx at once raised after one request
C21_Witness ==
    /\ hpc = "raised"
    /\ attempts = <<"HTTPError">>
    /\ returned = [raised |-> "HTTPError"]

\* the wait the backoff is said to make after the k-th failed attempt
ClaimedWait(k) == Min(10, 2 * Pow2(k - 1))

RECURSIVE ClaimedWaits(_)
ClaimedWaits(k) == IF k = 0 THEN 0 ELSE ClaimedWait(k) + ClaimedWaits(k - 1)

\* C22: the wait after the k-th failed attempt of a get call is
\* min(10, 2 * 2^(k-1)) seconds (2 s, then 4 s): when the attempt after k
\* failures is about to be made, the waits of the call add up to that.
C22_ExponentialBackoff ==
    (hpc = "attempt" /\ attempts # <<>>) =>
        now - calledAt = ClaimedWaits(Len(attempts))

\* C23: a call that ends on a 2xx response whose body is not JSON returns
\* {"text": body}, and the body itself when it is JSON; the call raised
\* nothing and that response was its last attempt.
C23_NonJsonReturnedAsText ==
    hpc = "done" =>
        /\ attempts[Len(attempts)] \in {"response", "cache"}
        /\ "value" \in DOMAIN returned
        /\ returned.value = IF served.json THEN served ELSE [text |-> served]

\* C23 witness: the first attempt was answered 200 with a body that is not
\* JSON and the call returned the text
C23_Witness ==
    /\ hpc = "done"
    /\ attempts = <<"response">>
    /\ ~served.json
    /\ returned.value = [text |-> served]

ResultsOf(source) ==
    {j \in DOMAIN response.results : response.results[j].source = source}

\* C38: the envelope search_apis(question, max_results = n) returns holds
\* at most n results of each source.
C38_AtMostNPerSource ==
    SearchApisReturned =>
        \A source \in {"wikipedia", "openfda"} :
            Cardinality(ResultsOf(source)) <= max_results

\* C39: a client built with max_retries = n makes no more than n + 1
\* request attempts in a get call.
C39_MaxRetriesBoundsAttempts ==
    NetworkRequests(attempts) <= max_retries + 1

\* the API answered with a record for page_id whose extract is not empty
HoldsPageWithExtract ==
    /\ "pages" \in DOMAIN page_got
    /\ page_id \in DOMAIN page_got.pages
    /\ "extract" \in DOMAIN page_got.pages[page_id]
    /\ page_got.pages[page_id].extract # <<>>

\* C40: get_page_content returns the page as a result whenever the API
\* answer holds a record for page_id with a non-empty extract, and None
\* otherwise.
C40_PageReturnedWhenHeld ==
    wpc = "returned" =>
        (HoldsPageWithExtract <=> "value" \in DOMAIN page_result)

(***************************************************************************)
(* Properties of LLMClient.generate (under LlmSpec and LlmFairSpec).       *)
(***************************************************************************)
\* C31: with caching enabled, a call made less than 24 hours after a call
\* with the same prompt generated a response returns that response and
\* generates nothing, whatever the response was.
C31_SecondCallServedFromCache ==
    (/\ lpc = "returned"
     /\ cache_enabled
     /\ before # NoEntry
     /\ clock - before.timestamp < CacheHours)
        => llm_response.value = before.response /\ tried = <<>>

\* a RuntimeError whose message does not tell of missing memory
IsPlainRuntimeError(outcome) ==
    /\ outcome.raised = "RuntimeError"
    /\ ~Contains(Lower(outcome.text), <<"o","u","t"," ","o","f"," ","m","e","m","o","r","y">>)

\* what the last generation of a returned call obliges generate to return
ClaimedReturn ==
    IF tried = <<>>
    THEN retries = 0 /\ llm_response.value = _generate_fallback_response(prompt)
    ELSE \E last \in {tried[Len(tried)]} :
         IF last.raised = "none" THEN llm_response.value = Strip(last.text)
         ELSE IF IsPlainRuntimeError(last)
         THEN Len(tried) = retries /\ llm_response.value = _generate_fallback_response(prompt)
         ELSE IF last.raised = "RuntimeError" THEN llm_response.value = OutOfMemoryError
         ELSE llm_response.value = _generate_fallback_response(prompt)

C32_AttemptsBounded ==
    /\ Len(tried) <= (IF mode = "mock" THEN 1 ELSE retries)
    /\ \A i \in 1..(Len(tried) - 1) : IsPlainRuntimeError(tried[i])
    /\ lpc = "returned" =>
          /\ "value" \in DOMAIN llm_response
          /\ (mode = "production" /\ ~hit /\ ~IsBlank(prompt)) => ClaimedReturn

C33_FailureRetriedNextCall ==
    lpc = "returned" =>
        /\ llm_response.value \in FailureResponses => cache_files = cache_at_call
        /\ failed_before => tried # <<>>

\* C33 amended: a call that returns a failure text leaves the cache as it
\* was; the next call with the same prompt is not answered from the cache,
\* and generates again when the prompt is not blank and max_retries is at
\* least 1.
C33_FailureNotCached ==
    lpc = "returned" =>
        /\ llm_response.value \in FailureResponses => cache_files = cache_at_call
        /\ failed_before => ~hit
        /\ (failed_before /\ ~IsBlank(prompt) /\ retries >= 1) => tried # <<>>

C33_Witness ==
    /\ lpc = "returned" /\ cache_enabled
    /\ failed_before /\ tried # <<>>
    /\ llm_response.value = OutOfMemoryError
    /\ cache_files = cache_at_call
    /\ cache_files[prompt] # NoEntry

(***************************************************************************)
(* Properties of LLMHandler (under HandlerSpec).                           *)
(***************************************************************************)
\* the error template the question type selects, filled with the error
ClaimedErrorResponse(asked, q_type, error) ==
    error_templates(asked, error)[IF q_type \in DOMAIN error_templates(asked, error)
                                  THEN q_type ELSE Default]

\* C34: process_question returns a record of status success or error and
\* lets no exception out; when building the prompt, generating or the
\* rest of the try block raised, the status is error and the answer is the
\* error template of the question type.
C34_ErrorsBecomeErrorRecords ==
    \A i \in DOMAIN handled :
        /\ handled[i].status \in {"success", "error"}
        /\ handled[i].status = "success" <=> handled[i].raised = "none"
        /\ handled[i].raised # "none" =>
              \E asked \in Asked :
                  handled[i].answer =
                      ClaimedErrorResponse(asked, handled[i].question_type, handled[i].error)

C34_Witness ==
    /\ qpc = "returned"
    /\ Len(handled) = 1
    /\ handled[1].raised = "PermissionError"
    /\ handled[1].status = "error"
    /\ handled[1].question_type = <<"m","e","d","i","c","a","l"," ","m","u","l","t","i","p","l","e"," ","c","h","o","i","c","e"," ","q","u","e","s","t","i","o","n">>

RECURSIVE SumOver(_, _)
SumOver(counts, keys) ==
    IF keys = {} THEN 0
    ELSE LET key == CHOOSE k \in keys : TRUE
         IN  counts[key] + SumOver(counts, keys \ {key})

\* C35: total_questions is the number of process_question executions, and
\* is the sum of the counters of by_type.
C35_TotalIsSumByType ==
    /\ stats.total_questions = executions
    /\ stats.total_questions = SumOver(stats.by_type, DOMAIN stats.by_type)

C35_Witness ==
    /\ qpc = "returned"
    /\ Len(handled) = 2
    /\ executions = 2
    /\ handled[1].status = "error" /\ handled[2].status = "success"
    /\ \E a \in QuestionTypes, b \in QuestionTypes :
          a # b /\ stats.by_type[a] = 1 /\ stats.by_type[b] = 1

\* the branch of the formatting a medical label is to take
ClaimedBranch(label) ==
    IF label = <<"m","e","d","i","c","a","l"," ","m","u","l","t","i","p","l","e"," ","c","h","o","i","c","e"," ","q","u","e","s","t","i","o","n">> THEN "multiple choice"
    ELSE IF label = <<"m","e","d","i","c","a","l"," ","s","t","e","p","w","i","s","e"," ","p","r","o","c","e","d","u","r","e"," ","q","u","e","s","t","i","o","n">> THEN "stepwise"
    ELSE "none"

\* C36: a question carrying a medical label of the classifier gets the
\* template file mapped to that label, never dataset_only.txt, and the
\* formatting of that label.
C36_LabelsGetOwnTemplate ==
    \A i \in DOMAIN handled :
        (handled[i].question_type \in MedicalLabels /\ handled[i].file # "none") =>
            /\ handled[i].file # "dataset_only.txt"
            /\ handled[i].status = "success" =>
                  handled[i].branch = ClaimedBranch(handled[i].question_type)

(***************************************************************************)
(* Properties of the end-to-end flow (under PipelineSpec).                 *)
(***************************************************************************)
\* the plan the triage engine gives the query of the flow
QueryPlan == classify_question(user_question, oracle)

\* C3: LLMClient.generate is never invoked for a query whose ActionPlan has
\* llm_mode = refusal.
C3_NoGenerationOnRefusal ==
    (ppc # "idle" /\ QueryPlan.llm_mode = "refusal") => generateCalls = 0

====
